---------------------------- MODULE Spec2Model ----------------------------
(***************************************************************************)
(* Execution runtime and event provenance of marketing_strategy_multi:     *)
(* Observer / Observable (runtime/observability/observer.py), the node     *)
(* driver Nodes (runtime/nodes.py), LocalExecutor and ArgoExecutor.        *)
(*                                                                         *)
(* Six specifications share the variables:                                 *)
(*   SpecObs     the Observable / Observer pair under arbitrary publishes, *)
(*               over several subscription lists and graphs;               *)
(*   Spec        the workflow of workflow.py run node by node by Nodes;    *)
(*   SpecWait    ArgoExecutor._wait_for_crd_status over bounded watch      *)
(*               streams;                                                  *)
(*   SpecArgo    one ArgoExecutor: run(), synchronous or not, and          *)
(*               get_results() on one context;                             *)
(*   SpecExtract get_results() and _extract_output over bounded dicts of   *)
(*               execution nodes;                                          *)
(*   SpecLocal   one LocalExecutor with its worker pool.                   *)
(***************************************************************************)
EXTENDS Integers, Sequences, FiniteSets, TLC

VARIABLES
    observers,  \* Observable.observers of the Nodes instance (a list)
    events,     \* Observer.events, one log per Observer instance
    graph,      \* Observer.graph, per Observer instance
    ret,        \* outcome of the most recent operation
    threads,    \* the threads publishing to one Observable: where each is in update()
    pc,         \* position of the driver thread inside Nodes._run_node, or of the
                \* caller of an ArgoExecutor: "new", "wait", "ran", "failed"
    node,       \* index in NodeOrder of the node being (or next to be) invoked
    mode,       \* state["state"].executor read by the current invocation
    state,      \* state["state"]: the agents whose result was written into it
    executor,   \* Nodes.executor attribute: "unset", "LocalExecutor" or "ArgoExecutor"
    execObservers, \* Observable.observers of the executor instance
    status,     \* ExecutionContext.status of the current invocation
    err,        \* the exception that reached the caller of _run_node ("none" if none)
    underlying, \* history: the first error raised inside the current invocation
    trace,      \* history: publish calls and backend call/return marks, in order
    cluster,    \* names of the workflow resources created in the cluster
    stream,     \* the watch stream handed to _wait_for_crd_status
    outcome,    \* result of the most recent _wait_for_crd_status
    api,        \* history: the calls an ArgoExecutor made on the cluster API, in order
    asyncMode,  \* the async_mode argument of the executor's run()
    raised,     \* the exception object that left the most recent executor call
    gets,       \* number of get_results calls made on the context
    specKeys,   \* the keys of context.spec of the context given to an ArgoExecutor
    contexts,   \* the ExecutionContext objects handed to a LocalExecutor
    futures,    \* LocalExecutor.futures: metadata.name -> index in pool of the handle
    pool,       \* the futures the ThreadPoolExecutor was given, in submission order
    invoked,    \* history: invocations of node functions, with the invoking thread
    callLog,    \* history: the calls made on the LocalExecutor, with their results
    environ,    \* os.environ of the process: variable name -> value
    workflowName, \* Nodes.workflow_name of the instance
    order       \* the nodes the traversal of the graph invokes, in order

vars == <<observers, events, graph, ret, threads, pc, node, mode, state, executor,
          execObservers, status, err, underlying, trace, cluster, stream, outcome,
          api, asyncMode, raised, gets, specKeys, contexts, futures, pool, invoked,
          callLog, environ, workflowName, order>>

obsVars == <<observers, events, graph, ret>>
runVars == <<pc, node, mode, state, executor, execObservers, status, err, underlying,
             trace, cluster>>
waitVars == <<stream, outcome>>
execVars == <<api, asyncMode, raised, gets, specKeys>>
localVars == <<contexts, futures, pool, invoked, callLog>>
procVars == <<environ, workflowName>>

-----------------------------------------------------------------------------
(* Bounds of the model.                                                    *)

MaxPublish == 3     \* publishes per behaviour in SpecObs
MaxStream == 2      \* longest watch stream

-----------------------------------------------------------------------------
(* Values.                                                                 *)

None == "None"                  \* Python's None
START == "__start__"            \* observer.py:24

LogObservers == {"o1", "o2"}    \* instances of class Observer
ForeignObservers == {"x"}       \* any other object with an update() method; it may raise

\* dict.get(k): the value, or None when the key is absent
Get(d, k) == IF k \in DOMAIN d THEN d[k] ELSE None

\* an event_data of None or {} (both falsy in observer.py:17,39-42)
NoData == [k \in {} |-> None]

Last(s) == s[Len(s)]

\* ExecutionContext.status when it is None, its default (runtime.py:36-38)
StatusNone == [set |-> FALSE, d |-> NoData]

-----------------------------------------------------------------------------
(* Graphs: `configured` is `self.graph is not None`; edges are             *)
(* <<source, target>> pairs.                                               *)

NoGraph == [configured |-> FALSE, edges |-> {}]
ChainGraph == [configured |-> TRUE, edges |-> {<<"A", "B">>, <<"B", "C">>}]
JoinGraph == [configured |-> TRUE, edges |-> {<<"A", "C">>, <<"B", "C">>}]
CycleGraph == [configured |-> TRUE, edges |-> {<<"A", "B">>, <<"B", "A">>, <<"A", "A">>}]
Graphs == {NoGraph, ChainGraph, JoinGraph, CycleGraph}

lead_market_analyst == "lead_market_analyst"
chief_marketing_strategist == "chief_marketing_strategist"
creative_content_creator == "creative_content_creator"

\* workflow.py:27-29: set_entry_point adds the edge from __start__
WorkflowGraph ==
    [configured |-> TRUE,
     edges |-> {<<START, lead_market_analyst>>,
                <<lead_market_analyst, chief_marketing_strategist>>,
                <<chief_marketing_strategist, creative_content_creator>>}]

\* the order in which the traversal of WorkflowGraph invokes the nodes
NodeOrder == <<lead_market_analyst, chief_marketing_strategist, creative_content_creator>>

-----------------------------------------------------------------------------
(* Observer.update                                                         *)

\* a plausible slip: parents taken from the edges leaving the agent
NodeParentsSwapped(g, agent_name) ==
    IF g.configured THEN {e[2] : e \in {x \in g.edges : x[1] = agent_name}} ELSE {}

\* a plausible slip: the agent counted among its own parents
NodeParentsWithSelf(g, agent_name) ==
    IF g.configured
    THEN {agent_name} \cup {e[1] : e \in {x \in g.edges : x[2] = agent_name}} ELSE {}

\* observer.py:19-21
NodeParents(g, agent_name) ==
    IF g.configured THEN {e[1] : e \in {x \in g.edges : x[2] = agent_name}} ELSE {}

RECURSIVE ScanForward(_, _, _)
\* a plausible slip: the log scanned oldest first
ScanForward(log, i, node_parents) ==
    IF i > Len(log) THEN START
    ELSE IF log[i].details.agentName \in node_parents THEN log[i].details.agentName
    ELSE ScanForward(log, i + 1, node_parents)

RECURSIVE ScanBack(_, _, _)
\* observer.py:24-31: for event in reversed(self.events), from index i down
ScanBack(log, i, node_parents) ==
    IF i = 0 THEN START
    ELSE IF log[i].details.agentName \in node_parents THEN log[i].details.agentName
    ELSE ScanBack(log, i - 1, node_parents)

PredecessorOldest(log, g, agent_name) == ScanForward(log, 1, NodeParents(g, agent_name))

\* a plausible slip: the previous event taken as the predecessor, whatever the graph
PredecessorPrevious(log, g, agent_name) ==
    IF Len(log) > 0 /\ Last(log).details.agentName # None
    THEN Last(log).details.agentName ELSE START

\* a plausible slip: the event being built takes part in its own scan
PredecessorSelf(log, g, agent_name) ==
    IF agent_name \in NodeParents(g, agent_name) THEN agent_name
    ELSE ScanBack(log, Len(log), NodeParents(g, agent_name))

\* observer.py:17-31
Predecessor(log, g, agent_name) == ScanBack(log, Len(log), NodeParents(g, agent_name))

\* observer.py:33-45
MakeEvent(log, g, source, event_data) ==
    [source |-> source,
     details |-> [agentName |-> Get(event_data, "agentName"),
                  agentPredecessor |-> Predecessor(log, g, Get(event_data, "agentName")),
                  agentPhase |-> Get(event_data, "agentPhase"),
                  executionID |-> Get(event_data, "executionID"),
                  executionPhase |-> Get(event_data, "executionPhase"),
                  error |-> Get(event_data, "error")]]

\* a plausible slip: the new event put at the head of the list
UpdatePrepend(log, g, source, event_data) == <<MakeEvent(log, g, source, event_data)>> \o log

\* observer.py:15-48: self.events.append(event)
Update(log, g, source, event_data) == Append(log, MakeEvent(log, g, source, event_data))

\* observer.py:50-53: a sequence of zero (None) or one event
get_latest_event(log) == IF Len(log) > 0 THEN <<log[Len(log)]>> ELSE <<>>

-----------------------------------------------------------------------------
(* Observable                                                              *)

\* Where a notification may stop: 0 when no update() raises, else the position
\* of the first observer whose update() raises.
RaisePoints(obs) == {0} \cup {i \in 1..Len(obs) : obs[i] \in ForeignObservers}

\* number of observers whose update() returns normally when the one at k raises
Reached(obs, k) == IF k = 0 THEN Len(obs) ELSE k - 1

RECURSIVE Deliver(_, _, _, _, _, _, _)
\* observer.py:68-70: the loop body for positions i..last
Deliver(obs, i, last, logs, graphs, source, event_data) ==
    IF i > last THEN logs
    ELSE Deliver(obs, i + 1, last,
                 IF obs[i] \in LogObservers
                 THEN [logs EXCEPT ![obs[i]] =
                          Update(logs[obs[i]], graphs[obs[i]], source, event_data)]
                 ELSE logs,
                 graphs, source, event_data)

\* observer.py:68-70: the logs after notify_observers when the observer at k
\* raises (k = 0: none does); an exception leaves the loop
notify_observers(obs, logs, graphs, source, event_data, k) ==
    Deliver(obs, 1, Reached(obs, k), logs, graphs, source, event_data)

-----------------------------------------------------------------------------
(* SpecObs: the Observable / Observer pair on its own.                     *)

Agents == {"A", "B", "C"}

\* the event_data dictionaries published in SpecObs
EventData ==
    {[agentName |-> a, agentPhase |-> "Started"] : a \in Agents}
        \cup {[agentPhase |-> "Running"]} \cup {NoData}

Idle == [op |-> "none", latest |-> <<>>, of |-> None]

\* a publish in the history: notify_observers(source, event_data) on the
\* Observable `by`, in which the observer at position raisedAt raised (0: none)
PublishMark(by, source, event_data, k) ==
    [kind |-> "publish", by |-> by, source |-> source, data |-> event_data, raisedAt |-> k]

RunInit ==
    /\ pc = "idle"
    /\ node = 1
    /\ mode = None
    /\ state = <<>>
    /\ executor = "unset"
    /\ execObservers = <<>>
    /\ status = StatusNone
    /\ err = "none"
    /\ underlying = "none"
    /\ trace = <<>>
    /\ cluster = {}

WaitInit ==
    /\ stream = <<>>
    /\ outcome = [kind |-> "none", ok |-> FALSE, event |-> <<>>]

\* no exception: the call returned
NoException == [type |-> "none", workflow_name |-> None, event |-> <<>>]

\* no thread is inside notify_observers
NoThreads == <<>>

\* workflow_agent.py:62-64: the keys run() reads from context.spec unguarded
RequiredKeys == {"program", "input_message", "agent_runner_image"}

\* nodes.py:70-84: the spec _run_node_remote builds for an ArgoExecutor
FullSpec ==
    RequiredKeys \cup {"image_pull_secrets", "additional_env_vars",
                       "additional_env_vars_from_secret"}

ExecInit ==
    /\ api = <<>>
    /\ asyncMode = FALSE
    /\ raised = NoException
    /\ gets = 0
    /\ environ = NoData
    /\ workflowName = None
    /\ specKeys = FullSpec
    /\ threads = NoThreads
    /\ contexts = <<>>
    /\ futures = NoData
    /\ pool = <<>>
    /\ invoked = <<>>
    /\ callLog = <<>>

\* the `observers` argument of WorkFlow.__init__ (workflow.py:14-17), each
\* subscribed in turn by add_observer (observer.py:62-63)
ObserverLists ==
    {<<"o1">>, <<"o1", "o2">>, <<"x", "o1">>, <<"o1", "x">>, <<"o1", "x", "o2">>,
     <<"o1", "o1">>}

InitObs ==
    /\ observers \in ObserverLists
    /\ events = [o \in LogObservers |-> <<>>]
    /\ \E g \in Graphs : graph = [o \in LogObservers |-> g]
    /\ ret = Idle
    /\ RunInit
    /\ WaitInit
    /\ ExecInit
    /\ order = NodeOrder

Publish(source, event_data, k) ==
    /\ Len(trace) < MaxPublish
    /\ k \in RaisePoints(observers)
    /\ events' = notify_observers(observers, events, graph, source, event_data, k)
    /\ trace' = Append(trace, PublishMark("Nodes", source, event_data, k))
    /\ ret' = [Idle EXCEPT !.op = "notify_observers"]
    /\ UNCHANGED <<observers, graph, threads, pc, node, mode, state, executor, execObservers, status,
                   err, underlying, cluster, waitVars, execVars, localVars, procVars, order>>

GetLatestEvent(o) ==
    /\ ret.op # "get_latest_event"
    /\ ret' = [Idle EXCEPT !.op = "get_latest_event", !.latest = get_latest_event(events[o]),
                           !.of = o]
    /\ UNCHANGED <<observers, events, graph, threads, runVars, waitVars, execVars, localVars, procVars, order>>

NextObs ==
    \/ \E d \in EventData : \E k \in RaisePoints(observers) : Publish("test", d, k)
    \/ \E o \in LogObservers : GetLatestEvent(o)

SpecObs == InitObs /\ [][NextObs]_vars

-----------------------------------------------------------------------------
(* ArgoExecutor: the watch stream, the wait and the output extraction.     *)

\* execution nodes of a workflow status, in the order of nodes.values(): a
\* node may carry "templateName", and "outputs", the values of its output
\* parameters in order
NodesWithOutput ==
    <<[templateName |-> "main"], [templateName |-> "agent-runner", outputs |-> <<"{\"x\":1}">>]>>
NodesNoOutput == <<[templateName |-> "main"]>>

\* the "object" of a watch event: a dict that may lack "status", whose status
\* may lack "finishedAt" or "phase" (a KeyError at workflow_agent.py:209-212);
\* Unfinished are the updates the loop passes over, Finished those it returns at
Unfinished ==
    {[metadata |-> "wf"],
     [metadata |-> "wf", status |-> [phase |-> "Pending"]],
     [metadata |-> "wf", status |-> [phase |-> "Running", finishedAt |-> None]],
     [metadata |-> "wf", status |-> [phase |-> "Failed", finishedAt |-> None]],
     [metadata |-> "wf", status |-> [finishedAt |-> "t"]]}
Finished ==
    {[metadata |-> "wf", status |-> [phase |-> ph, finishedAt |-> "t", nodes |-> ns]] :
        ph \in {"Succeeded"}, ns \in {NodesWithOutput, NodesNoOutput}}
    \cup {[metadata |-> "wf", status |-> [phase |-> ph, finishedAt |-> "t", nodes |-> NodesNoOutput]] :
        ph \in {"Failed", "Error"}}
    \cup {[metadata |-> "wf", status |-> [phase |-> "Running", finishedAt |-> "t", nodes |-> NodesWithOutput]]}
Updates == Unfinished \cup Finished

\* the watch streams: every sequence of at most MaxStream updates
Streams == UNION {[1..n -> Updates] : n \in 0..MaxStream}

\* event["object"]["status"]["finishedAt"] is not None
FinishedAtSet(u) ==
    /\ "status" \in DOMAIN u
    /\ "finishedAt" \in DOMAIN u.status
    /\ u.status.finishedAt # None

\* workflow_agent.py:208-221: the update ends the wait; a KeyError on a missing
\* "status", "finishedAt" or "phase" is caught and the loop goes on
IsFinished(u) == FinishedAtSet(u) /\ "phase" \in DOMAIN u.status

Timeout == [kind |-> "timeout", ok |-> FALSE, event |-> <<>>]

RECURSIVE WaitLast(_, _)
\* a plausible slip: the loop keeps reading and reports the last finished update
WaitLast(s, i) ==
    IF i = 0 THEN Timeout
    ELSE IF IsFinished(s[i])
         THEN IF s[i].status.phase \in {"Failed", "Error"}
              THEN [kind |-> "returned", ok |-> FALSE, event |-> <<s[i]>>]
              ELSE [kind |-> "returned", ok |-> TRUE, event |-> <<s[i]>>]
         ELSE WaitLast(s, i - 1)

RECURSIVE WaitFrom(_, _)
\* workflow_agent.py:198-224: the loop over the stream from position i; the
\* stream's end is the timeout
WaitFrom(s, i) ==
    IF i > Len(s) THEN Timeout
    ELSE IF IsFinished(s[i])
         THEN IF s[i].status.phase = "Failed" \/ s[i].status.phase = "Error"
              THEN [kind |-> "returned", ok |-> FALSE, event |-> <<s[i]>>]
              ELSE [kind |-> "returned", ok |-> TRUE, event |-> <<s[i]>>]
         ELSE WaitFrom(s, i + 1)

wait_last_finished(s) == WaitLast(s, Len(s))

\* a plausible slip: only "Failed" taken as failure
wait_error_is_success(s) ==
    LET r == WaitFrom(s, 1)
    IN  IF r.kind = "returned" /\ r.event[1].status.phase = "Error"
        THEN [r EXCEPT !.ok = TRUE] ELSE r

\* a plausible slip: only "Succeeded" taken as success
wait_success_is_succeeded(s) ==
    LET r == WaitFrom(s, 1)
    IN  IF r.kind = "returned" /\ r.event[1].status.phase # "Succeeded"
        THEN [r EXCEPT !.ok = FALSE] ELSE r

\* workflow_agent.py:191-224
_wait_for_crd_status(s) == WaitFrom(s, 1)

\* the JSON documents among the output texts of the model, with their values
JsonValues == ("{\"x\":1}" :> [x |-> 1]) @@ ("{\"x\":2}" :> [x |-> 2])

\* json.loads (workflow_agent.py:180) on a text that is a JSON document
JsonLoads(text) == JsonValues[text]

ExtractError == "Exception: Output not found in workflow"         \* workflow_agent.py:178
IndexError == "IndexError: list index out of range"              \* workflow_agent.py:172
JSONDecodeError == "json.JSONDecodeError"                         \* workflow_agent.py:180
NodesKeyError == "KeyError: 'nodes'"                              \* workflow_agent.py:164

RECURSIVE ExtractFromAnyTemplate(_, _)
\* a plausible slip: the first node with outputs, whatever its template
ExtractFromAnyTemplate(nodes, i) ==
    IF i > Len(nodes) THEN [error |-> "none", output |-> None]
    ELSE IF "outputs" \in DOMAIN nodes[i]
         THEN IF nodes[i].outputs = <<>> THEN [error |-> IndexError, output |-> None]
              ELSE [error |-> "none", output |-> nodes[i].outputs[1]]
         ELSE ExtractFromAnyTemplate(nodes, i + 1)

RECURSIVE ExtractFrom(_, _)
\* workflow_agent.py:167-175: the loop from node i on. A node without
\* "templateName" or without "outputs" raises a KeyError that is caught, and the
\* loop goes on; the first agent-runner node with outputs ends it, with the
\* value of its first parameter or with the IndexError of an empty list
ExtractFrom(nodes, i) ==
    IF i > Len(nodes) THEN [error |-> "none", output |-> None]
    ELSE IF Get(nodes[i], "templateName") = "agent-runner" /\ "outputs" \in DOMAIN nodes[i]
         THEN IF nodes[i].outputs = <<>> THEN [error |-> IndexError, output |-> None]
              ELSE [error |-> "none", output |-> nodes[i].outputs[1]]
         ELSE ExtractFrom(nodes, i + 1)

\* workflow_agent.py:162-180: the value returned, or the exception raised
_extract_output(workflow_event) ==
    LET r == IF "nodes" \in DOMAIN workflow_event.status
             THEN ExtractFrom(workflow_event.status.nodes, 1)
             ELSE [error |-> NodesKeyError, output |-> None]
    IN  IF r.error # "none" THEN [ok |-> FALSE, value |-> [x |-> 0], error |-> r.error]
        ELSE IF r.output = None \/ r.output = ""
        THEN [ok |-> FALSE, value |-> [x |-> 0], error |-> ExtractError]
        ELSE IF r.output \notin DOMAIN JsonValues
        THEN [ok |-> FALSE, value |-> [x |-> 0], error |-> JSONDecodeError]
        ELSE [ok |-> TRUE, value |-> JsonLoads(r.output), error |-> "none"]

\* the exceptions raised after the wait: workflow_agent.py:224 and :16-20,123
TimeoutError == "Exception: Timeout waiting for CRD status"
ArgoWorkflowException == "ArgoWorkflowException: Argo workflow execution failed"

\* workflow_agent.py:112-123,224: what run() raises on the result r of the wait
WaitError(r) ==
    IF r.kind = "timeout" THEN TimeoutError
    ELSE IF ~r.ok THEN ArgoWorkflowException
    ELSE "none"

-----------------------------------------------------------------------------
(* SpecWait: _wait_for_crd_status applied to every bounded stream.         *)

InitWait ==
    /\ observers = <<>>
    /\ events = [o \in LogObservers |-> <<>>]
    /\ graph = [o \in LogObservers |-> NoGraph]
    /\ ret = Idle
    /\ RunInit
    /\ stream \in Streams
    /\ outcome = [kind |-> "none", ok |-> FALSE, event |-> <<>>]
    /\ ExecInit
    /\ order = NodeOrder

Wait ==
    /\ outcome.kind = "none"
    /\ outcome' = _wait_for_crd_status(stream)
    /\ UNCHANGED <<stream, obsVars, threads, runVars, execVars, localVars, procVars, order>>

NextWait == Wait

\* the watch of workflow_agent.py:198-207 ends (timeout_seconds) and the loop
\* body returns or goes on: the call comes to its end
SpecWaitFair == InitWait /\ [][NextWait]_vars /\ WF_vars(Wait)

SpecWait == InitWait /\ [][NextWait]_vars

-----------------------------------------------------------------------------
(* Nodes._run_node over the workflow of workflow.py: Spec.                 *)

\* runtime.py:13-15 and state.py:26-31: the executor field is Optional
Local == "local"
Argo == "argo-workflow"
Modes == {Local, Argo, None}

\* ExecutionContext.status holding the dict d
StatusOf(d) == [set |-> TRUE, d |-> d]
\* d[k] = v on a dict
SetKey(d, k, v) == (k :> v) @@ d

\* the exceptions that leave _run_node
ObserverError == "the exception of an observer's update()"
Unsupported == "Exception: Executor not supported"                 \* nodes.py:46
CallableError == "the exception of the node function"            \* local_executor.py:32
MissingNodeFunctions == "Exception: node_function not found in spec" \* local_executor.py:23
MissingProgram == "KeyError: 'program'"                           \* workflow_agent.py:62
MissingInputMessage == "KeyError: 'input_message'"                \* workflow_agent.py:63
MissingAgentRunnerImage == "KeyError: 'agent_runner_image'"       \* workflow_agent.py:64

\* the KeyError of a subscript on a spec that lacks the key
KeyErrorOf(key) ==
    CASE key = "program" -> MissingProgram
      [] key = "input_message" -> MissingInputMessage
      [] key = "agent_runner_image" -> MissingAgentRunnerImage

\* a plausible slip: only the program is read unguarded, the other keys default
MissingKeyProgramOnly(keys) ==
    IF "program" \notin keys THEN "program" ELSE None

\* workflow_agent.py:55-75: the arguments of WorkflowContext(...) are evaluated
\* in order; the first required key the spec lacks raises, None if it has all
MissingKey(keys) ==
    IF "program" \notin keys THEN "program"
    ELSE IF "input_message" \notin keys THEN "input_message"
    ELSE IF "agent_runner_image" \notin keys THEN "agent_runner_image"
    ELSE None
CreateError == "the exception of workflow_resource.create"       \* workflow_agent.py:84-94

\* metadata.name of the created resources: generateName plus a suffix chosen
\* by the cluster (workflow_agent.py:56,84-86,99)
GeneratedNames ==
    <<"marketing-strategy-multi-v2-a", "marketing-strategy-multi-v2-b",
      "marketing-strategy-multi-v2-c", "marketing-strategy-multi-v2-d">>

\* nodes.py:36-39
StartedData(agent) == [agentName |-> agent, agentPhase |-> "Started"]
\* nodes.py:48-51
FinishedData(agent) == [agentName |-> agent, agentPhase |-> "Finished"]
\* workflow_agent.py:88-93
CreateErrorData(agent) ==
    [agentName |-> agent, agentPhase |-> "Initializing", executionPhase |-> "Error",
     error |-> "Could not create Argo workflow custom resource in K8s"]
\* workflow_agent.py:96-102
CreatedData(agent, name) ==
    [agentName |-> agent, agentPhase |-> "Running", executionID |-> name,
     executionPhase |-> "Created", error |-> None]
\* workflow_agent.py:116-122
FailedData(agent, name, event) ==
    [agentName |-> agent, agentPhase |-> "Errored", executionID |-> name,
     executionPhase |-> event.status.phase, error |-> "Argo workflow execution failed"]
\* workflow_agent.py:126-132
TerminalData(agent, name, event) ==
    [agentName |-> agent, agentPhase |-> "Running", executionID |-> name,
     executionPhase |-> event.status.phase, error |-> None]

\* history marks of the backend call made by _run_node_local / _run_node_remote:
\* kind is "call", "return" or "raise", by is the class of self.executor
Mark(kind, by, agent) ==
    [kind |-> kind, by |-> by, source |-> by, data |-> [agentName |-> agent], raisedAt |-> 0]

\* attributes['name'] of the node being invoked
Agent == order[node]

\* the exception leaving a method whose publish stopped at observer k
Masked(k, e) == IF k # 0 THEN ObserverError ELSE e

\* calls on the cluster API
CreateCall(name) == [verb |-> "create", name |-> name]
WatchCall(name) == [verb |-> "watch", name |-> name]
DeleteCall(name) == [verb |-> "delete", name |-> name]

\* a plausible slip: a failed creation is attempted a second time
CreateCallsRetry(name, created) ==
    IF created THEN <<CreateCall(name)>> ELSE <<CreateCall(None), CreateCall(None)>>

\* workflow_agent.py:83-86: the one creation call of run(); a failed creation
\* names no resource
CreateCalls(name, created) == <<CreateCall(IF created THEN name ELSE None)>>

\* a plausible slip: the wait cleans the resource up when it times out
WaitCallsCleanup(name, r) ==
    IF r.kind = "timeout" THEN <<WatchCall(name), DeleteCall(name)>>
    ELSE <<WatchCall(name)>>

\* workflow_agent.py:191-224: the calls _wait_for_crd_status makes on the
\* cluster when its result is r: the watch of the named resource, nothing else
WaitCalls(name, r) == <<WatchCall(name)>>

\* a node function that raises
Raises == "raises"

\* an invocation of the node function of context c on a thread
Invocation(c, thread, out) == [ctx |-> c, thread |-> thread, out |-> out]

\* main.py:26-28: the observers handed to WorkFlow, their graph set from the
\* compiled workflow
RunObserverLists == {<<"o1">>, <<"o1", "x">>, <<"x", "o1">>}

Init ==
    /\ observers \in RunObserverLists
    /\ events = [o \in LogObservers |-> <<>>]
    /\ graph = [o \in LogObservers |-> WorkflowGraph]
    /\ ret = Idle
    /\ RunInit
    /\ WaitInit
    /\ ExecInit
    /\ order = NodeOrder

\* a plausible slip: Started published by the remote path only
RunNodeStartRemoteOnly(m, k) ==
    /\ pc = "idle"
    /\ node <= Len(order)
    /\ k \in RaisePoints(observers)
    /\ mode' = m
    /\ status' = StatusNone
    /\ IF m = Local /\ k = 0
       THEN UNCHANGED <<events, trace>>
       ELSE /\ events' = notify_observers(observers, events, graph, "Nodes", StartedData(Agent), k)
            /\ trace' = Append(trace, PublishMark("Nodes", "Nodes", StartedData(Agent), k))
    /\ IF k # 0 THEN pc' = "failed" /\ err' = ObserverError /\ underlying' = ObserverError
       ELSE IF m = Local THEN pc' = "local" /\ UNCHANGED <<err, underlying>>
       ELSE IF m = Argo THEN pc' = "remote" /\ UNCHANGED <<err, underlying>>
       ELSE pc' = "failed" /\ err' = Unsupported /\ underlying' = Unsupported
    /\ UNCHANGED <<observers, graph, threads, ret, node, state, executor, execObservers, cluster, waitVars, execVars, localVars, procVars, order>>

\* a plausible slip: any mode other than the remote one takes the local path
RunNodeStartDefaultLocal(m, k) ==
    /\ pc = "idle"
    /\ node <= Len(order)
    /\ k \in RaisePoints(observers)
    /\ mode' = m
    /\ status' = StatusNone
    /\ events' = notify_observers(observers, events, graph, "Nodes", StartedData(Agent), k)
    /\ trace' = Append(trace, PublishMark("Nodes", "Nodes", StartedData(Agent), k))
    /\ IF k # 0 THEN pc' = "failed" /\ err' = ObserverError /\ underlying' = ObserverError
       ELSE IF m = Argo THEN pc' = "remote" /\ UNCHANGED <<err, underlying>>
       ELSE pc' = "local" /\ UNCHANGED <<err, underlying>>
    /\ UNCHANGED <<observers, graph, threads, ret, node, state, executor, execObservers, cluster, waitVars, execVars, localVars, procVars, order>>

\* nodes.py:32-46: the mode is read from the state, Started is published, and
\* the invocation goes to the local or the remote path, or fails on any other mode
RunNodeStart(m, k) ==
    /\ pc = "idle"
    /\ node <= Len(order)
    /\ k \in RaisePoints(observers)
    /\ mode' = m
    /\ status' = StatusNone
    /\ events' = notify_observers(observers, events, graph, "Nodes", StartedData(Agent), k)
    /\ trace' = Append(trace, PublishMark("Nodes", "Nodes", StartedData(Agent), k))
    /\ IF k # 0 THEN pc' = "failed" /\ err' = ObserverError /\ underlying' = ObserverError
       ELSE IF m = Local THEN pc' = "local" /\ UNCHANGED <<err, underlying>>
       ELSE IF m = Argo THEN pc' = "remote" /\ UNCHANGED <<err, underlying>>
       ELSE pc' = "failed" /\ err' = Unsupported /\ underlying' = Unsupported
    /\ UNCHANGED <<observers, graph, threads, ret, node, state, executor, execObservers, cluster, waitVars, execVars, localVars, procVars, order>>

\* nodes.py:95-111 with the run() of the executor the instance holds:
\* LocalExecutor.run (local_executor.py:15-35), or ArgoExecutor.run
\* (workflow_agent.py:54-75) failing on the spec of the local path
RunNodeLocal(returns) ==
    /\ pc = "local"
    /\ executor' = IF executor = "unset" THEN "LocalExecutor" ELSE executor
    /\ execObservers' = IF executor = "unset" THEN <<>> ELSE execObservers
    /\ IF executor' = "LocalExecutor"
       THEN IF returns
            THEN /\ status' = StatusOf([output |-> "state"])
                 /\ state' = Append(state, Agent)
                 /\ invoked' = Append(invoked, Invocation(node, "caller", "state"))
                 /\ trace' = trace \o <<Mark("call", "LocalExecutor", Agent),
                                        Mark("return", "LocalExecutor", Agent)>>
                 /\ pc' = "finish"
                 /\ UNCHANGED <<err, underlying>>
            ELSE /\ trace' = trace \o <<Mark("call", "LocalExecutor", Agent),
                                        Mark("raise", "LocalExecutor", Agent)>>
                 /\ pc' = "failed"
                 /\ err' = CallableError
                 /\ underlying' = CallableError
                 /\ invoked' = Append(invoked, Invocation(node, "caller", Raises))
                 /\ UNCHANGED <<status, state>>
       ELSE /\ trace' = trace \o <<Mark("call", "ArgoExecutor", Agent),
                                   Mark("raise", "ArgoExecutor", Agent)>>
            /\ pc' = "failed"
            /\ err' = MissingProgram
            /\ underlying' = MissingProgram
            /\ UNCHANGED <<status, state, invoked>>
    /\ UNCHANGED <<obsVars, threads, node, mode, cluster, waitVars, execVars, contexts, futures,
                   pool, callLog, procVars, order>>

\* nodes.py:53-87 up to the creation in run(): ArgoExecutor.run
\* (workflow_agent.py:54-107), or LocalExecutor.run (local_executor.py:21-23)
\* failing on the spec of the remote path
RunNodeRemoteCreate(created, k) ==
    /\ pc = "remote"
    /\ executor' = IF executor = "unset" THEN "ArgoExecutor" ELSE executor
    /\ execObservers' = IF executor = "unset" THEN observers ELSE execObservers
    /\ IF executor' = "LocalExecutor"
       THEN /\ k = 0
            /\ created
            /\ trace' = trace \o <<Mark("call", "LocalExecutor", Agent),
                                   Mark("raise", "LocalExecutor", Agent)>>
            /\ pc' = "failed"
            /\ err' = MissingNodeFunctions
            /\ underlying' = MissingNodeFunctions
            /\ UNCHANGED <<events, status, cluster, api>>
       ELSE /\ k \in RaisePoints(execObservers')
            /\ api' = api \o CreateCalls(GeneratedNames[Cardinality(cluster) + 1], created)
            /\ IF created
               THEN LET name == GeneratedNames[Cardinality(cluster) + 1]
                    IN  /\ cluster' = cluster \cup {name}
                        /\ events' = notify_observers(execObservers', events, graph,
                                         "ArgoExecutor", CreatedData(Agent, name), k)
                        /\ IF k = 0
                           THEN /\ status' = StatusOf("workflow-name" :> name)
                                /\ trace' = trace \o
                                     <<Mark("call", "ArgoExecutor", Agent),
                                       PublishMark("ArgoExecutor", "ArgoExecutor",
                                                   CreatedData(Agent, name), k)>>
                                /\ pc' = "wait"
                                /\ UNCHANGED <<err, underlying>>
                           ELSE /\ trace' = trace \o
                                     <<Mark("call", "ArgoExecutor", Agent),
                                       PublishMark("ArgoExecutor", "ArgoExecutor",
                                                   CreatedData(Agent, name), k),
                                       Mark("raise", "ArgoExecutor", Agent)>>
                                /\ pc' = "failed"
                                /\ err' = ObserverError
                                /\ underlying' = ObserverError
                                /\ UNCHANGED status
               ELSE /\ events' = notify_observers(execObservers', events, graph,
                                     "ArgoExecutor", CreateErrorData(Agent), k)
                    /\ trace' = trace \o
                         <<Mark("call", "ArgoExecutor", Agent),
                           PublishMark("ArgoExecutor", "ArgoExecutor", CreateErrorData(Agent), k),
                           Mark("raise", "ArgoExecutor", Agent)>>
                    /\ pc' = "failed"
                    /\ err' = Masked(k, CreateError)
                    /\ underlying' = CreateError
                    /\ UNCHANGED <<status, cluster>>
    /\ UNCHANGED <<observers, graph, threads, ret, node, mode, state, waitVars, asyncMode, raised,
                   gets, specKeys, localVars, procVars, order>>

\* workflow_agent.py:109-135: the synchronous wait of run() on the stream s
RunNodeRemoteWait(s, k) ==
    /\ pc = "wait"
    /\ k \in RaisePoints(execObservers)
    /\ api' = api \o WaitCalls(status.d["workflow-name"], _wait_for_crd_status(s))
    /\ LET r == _wait_for_crd_status(s)
           name == status.d["workflow-name"]
       IN  IF r.kind = "timeout"
           THEN /\ k = 0
                /\ trace' = Append(trace, Mark("raise", "ArgoExecutor", Agent))
                /\ pc' = "failed"
                /\ err' = WaitError(r)
                /\ underlying' = WaitError(r)
                /\ UNCHANGED <<events, status>>
           ELSE IF ~r.ok
           THEN /\ events' = notify_observers(execObservers, events, graph, "ArgoExecutor",
                                 FailedData(Agent, name, r.event[1]), k)
                /\ trace' = trace \o
                     <<PublishMark("ArgoExecutor", "ArgoExecutor",
                                   FailedData(Agent, name, r.event[1]), k),
                       Mark("raise", "ArgoExecutor", Agent)>>
                /\ pc' = "failed"
                /\ err' = Masked(k, WaitError(r))
                /\ underlying' = WaitError(r)
                /\ UNCHANGED status
           ELSE /\ status' = StatusOf(SetKey(status.d, "event", r.event[1]))
                /\ events' = notify_observers(execObservers, events, graph, "ArgoExecutor",
                                 TerminalData(Agent, name, r.event[1]), k)
                /\ IF k = 0
                   THEN /\ trace' = Append(trace,
                               PublishMark("ArgoExecutor", "ArgoExecutor",
                                           TerminalData(Agent, name, r.event[1]), k))
                        /\ pc' = "results"
                        /\ UNCHANGED <<err, underlying>>
                   ELSE /\ trace' = trace \o
                             <<PublishMark("ArgoExecutor", "ArgoExecutor",
                                           TerminalData(Agent, name, r.event[1]), k),
                               Mark("raise", "ArgoExecutor", Agent)>>
                        /\ pc' = "failed"
                        /\ err' = ObserverError
                        /\ underlying' = ObserverError
    /\ UNCHANGED <<observers, graph, threads, ret, node, mode, state, executor, execObservers, cluster,
                   waitVars, asyncMode, raised, gets, specKeys, localVars, procVars, order>>

\* a plausible slip: get_results publishes the terminal event once more, as
\* its own wait path does
RunNodeRemoteResultsRepublish ==
    /\ pc = "results"
    /\ "event" \in DOMAIN status.d
    /\ events' = notify_observers(execObservers, events, graph, "ArgoExecutor",
                     TerminalData(Agent, status.d["workflow-name"], status.d.event), 0)
    /\ LET out == _extract_output(status.d.event)
       IN  IF out.ok
           THEN /\ ret' = [Idle EXCEPT !.op = "get_results", !.latest = <<out.value>>]
                /\ state' = Append(state, Agent)
                /\ trace' = Append(trace, Mark("return", "ArgoExecutor", Agent))
                /\ pc' = "finish"
                /\ UNCHANGED <<err, underlying>>
           ELSE /\ trace' = Append(trace, Mark("raise", "ArgoExecutor", Agent))
                /\ pc' = "failed"
                /\ err' = out.error
                /\ underlying' = out.error
                /\ UNCHANGED <<ret, state>>
    /\ UNCHANGED <<observers, graph, threads, node, mode, executor, execObservers, status,
                   cluster, waitVars, execVars, localVars, procVars, order>>

\* nodes.py:88-93 with get_results (workflow_agent.py:137-160) after a
\* synchronous run: status holds "event", the output is extracted from it
RunNodeRemoteResults ==
    /\ pc = "results"
    /\ "event" \in DOMAIN status.d
    /\ LET out == _extract_output(status.d.event)
       IN  IF out.ok
           THEN /\ ret' = [Idle EXCEPT !.op = "get_results", !.latest = <<out.value>>]
                /\ state' = Append(state, Agent)
                /\ trace' = Append(trace, Mark("return", "ArgoExecutor", Agent))
                /\ pc' = "finish"
                /\ UNCHANGED <<err, underlying>>
           ELSE /\ trace' = Append(trace, Mark("raise", "ArgoExecutor", Agent))
                /\ pc' = "failed"
                /\ err' = out.error
                /\ underlying' = out.error
                /\ UNCHANGED <<ret, state>>
    /\ UNCHANGED <<observers, events, graph, threads, node, mode, executor, execObservers, status,
                   cluster, waitVars, execVars, localVars, procVars, order>>

\* nodes.py:48-51: Finished is published and the traversal goes on to the next node
RunNodeFinish(k) ==
    /\ pc = "finish"
    /\ k \in RaisePoints(observers)
    /\ events' = notify_observers(observers, events, graph, "Nodes", FinishedData(Agent), k)
    /\ trace' = Append(trace, PublishMark("Nodes", "Nodes", FinishedData(Agent), k))
    /\ IF k # 0
       THEN pc' = "failed" /\ err' = ObserverError /\ underlying' = ObserverError
            /\ UNCHANGED node
       ELSE /\ node' = node + 1
            /\ pc' = IF node = Len(order) THEN "done" ELSE "idle"
            /\ UNCHANGED <<err, underlying>>
    /\ UNCHANGED <<observers, graph, threads, ret, mode, state, executor, execObservers, status, cluster,
                   waitVars, execVars, localVars, procVars, order>>

\* positions at which some observer of either list may raise
AnyRaisePoint == RaisePoints(observers) \cup RaisePoints(execObservers)

Next ==
    \/ \E m \in Modes : \E k \in AnyRaisePoint : RunNodeStart(m, k)
    \/ \E returns \in BOOLEAN : RunNodeLocal(returns)
    \/ \E created \in BOOLEAN : \E k \in AnyRaisePoint : RunNodeRemoteCreate(created, k)
    \/ \E s \in Streams : \E k \in AnyRaisePoint : RunNodeRemoteWait(s, k)
    \/ RunNodeRemoteResults
    \/ \E k \in AnyRaisePoint : RunNodeFinish(k)

Spec == Init /\ [][Next]_vars

-----------------------------------------------------------------------------
(* SpecArgo: one ArgoExecutor and one ExecutionContext; the caller invokes  *)
(* run(context, async_mode) and then get_results(context).                 *)

MaxGetResults == 3      \* get_results calls per behaviour in SpecArgo

\* an exception carrying only its message
Exception(message) == [type |-> message, workflow_name |-> None, event |-> <<>>]

\* workflow_agent.py:16-20: ArgoWorkflowException(workflow_name, event)
ArgoWorkflowExceptionOf(workflow_name, event) ==
    [type |-> ArgoWorkflowException, workflow_name |-> workflow_name, event |-> <<event>>]

\* workflow_agent.py:138 on a context whose status is None
StatusTypeError == "TypeError: argument of type 'NoneType' is not iterable"

RECURSIVE ApplyCalls(_, _)
\* the resources in the cluster c after the calls: a create adds the named
\* resource, a delete removes it, a watch changes nothing
ApplyCalls(c, calls) ==
    IF calls = <<>> THEN c
    ELSE LET call == Head(calls)
         IN  ApplyCalls(IF call.verb = "create" THEN c \cup {call.name}
                        ELSE IF call.verb = "delete" THEN c \ {call.name}
                        ELSE c,
                        Tail(calls))

\* workflow_agent.py:198-207: the watch selects on metadata.name, so the
\* updates of the stream s arrive as updates of the resource `name`
WatchStream(s, name) == [i \in DOMAIN s |-> [s[i] EXCEPT !.metadata = name]]

\* the streams a watch of SpecArgo reads: it ends with no update (the timeout),
\* or a finished update arrives, at once or after an update of the running task
ArgoStreams ==
    {<<>>} \cup {<<u>> : u \in Finished}
           \cup {<<[metadata |-> "wf", status |-> [phase |-> "Running", finishedAt |-> None]], u>> :
                    u \in Finished}

\* workflow_agent.py:141-147
ResultsFailedData(agent, event) == FailedData(agent, event.metadata, event)
\* workflow_agent.py:150-156
ResultsTerminalData(agent, event) == TerminalData(agent, event.metadata, event)

\* an ArgoExecutor with its subscribed observers, a fresh context for the first
\* agent, and a cluster that may hold an earlier resource
InitArgo ==
    /\ observers = <<>>
    /\ events = [o \in LogObservers |-> <<>>]
    /\ graph = [o \in LogObservers |-> WorkflowGraph]
    /\ ret = Idle
    /\ pc = "new"
    /\ node = 1
    /\ mode = Argo
    /\ state = <<>>
    /\ executor = "ArgoExecutor"
    /\ execObservers \in RunObserverLists
    /\ status = StatusNone
    /\ err = "none"
    /\ underlying = "none"
    /\ trace = <<>>
    /\ cluster \in {{}, {GeneratedNames[1]}}
    /\ WaitInit
    /\ ExecInit
    /\ order = NodeOrder

\* workflow_agent.py:48-107 and, with async_mode, :110,135: run() up to the
\* creation, its event and the write of context.status
ArgoRunCreate(async_mode, created, k) ==
    /\ pc = "new"
    /\ k \in RaisePoints(execObservers)
    /\ asyncMode' = async_mode
    /\ IF MissingKey(specKeys) # None
       THEN /\ created /\ k = 0
            /\ trace' = trace \o <<Mark("call", "ArgoExecutor", Agent),
                                   Mark("raise", "ArgoExecutor", Agent)>>
            /\ pc' = "failed"
            /\ raised' = Exception(KeyErrorOf(MissingKey(specKeys)))
            /\ UNCHANGED <<api, cluster, events, status>>
       ELSE IF created
       THEN LET name == GeneratedNames[Cardinality(cluster) + 1]
            IN  /\ api' = Append(api, CreateCall(name))
                /\ cluster' = ApplyCalls(cluster, <<CreateCall(name)>>)
                /\ events' = notify_observers(execObservers, events, graph,
                                 "ArgoExecutor", CreatedData(Agent, name), k)
                /\ IF k = 0
                   THEN /\ status' = StatusOf("workflow-name" :> name)
                        /\ trace' = trace \o
                             <<Mark("call", "ArgoExecutor", Agent),
                               PublishMark("ArgoExecutor", "ArgoExecutor",
                                           CreatedData(Agent, name), k)>>
                             \o (IF async_mode
                                 THEN <<Mark("return", "ArgoExecutor", Agent)>> ELSE <<>>)
                        /\ pc' = IF async_mode THEN "ran" ELSE "wait"
                        /\ raised' = NoException
                   ELSE /\ trace' = trace \o
                             <<Mark("call", "ArgoExecutor", Agent),
                               PublishMark("ArgoExecutor", "ArgoExecutor",
                                           CreatedData(Agent, name), k),
                               Mark("raise", "ArgoExecutor", Agent)>>
                        /\ pc' = "failed"
                        /\ raised' = Exception(ObserverError)
                        /\ UNCHANGED status
       ELSE /\ api' = Append(api, CreateCall(None))
            /\ events' = notify_observers(execObservers, events, graph,
                             "ArgoExecutor", CreateErrorData(Agent), k)
            /\ trace' = trace \o
                 <<Mark("call", "ArgoExecutor", Agent),
                   PublishMark("ArgoExecutor", "ArgoExecutor", CreateErrorData(Agent), k),
                   Mark("raise", "ArgoExecutor", Agent)>>
            /\ pc' = "failed"
            /\ raised' = Exception(Masked(k, CreateError))
            /\ UNCHANGED <<status, cluster>>
    /\ UNCHANGED <<observers, graph, threads, ret, node, mode, state, executor, execObservers, err,
                   underlying, waitVars, gets, specKeys, localVars, procVars, order>>

\* a plausible slip: the update is stored in context.status before the
\* verdict of the wait is looked at
ArgoRunWaitStoresFirst(s, k) ==
    /\ pc = "wait"
    /\ k \in RaisePoints(execObservers)
    /\ LET name == status.d["workflow-name"]
           r == _wait_for_crd_status(WatchStream(s, name))
       IN  /\ api' = api \o WaitCalls(name, r)
           /\ cluster' = ApplyCalls(cluster, WaitCalls(name, r))
           /\ outcome' = r
           /\ IF r.kind = "timeout"
              THEN /\ k = 0
                   /\ trace' = Append(trace, Mark("raise", "ArgoExecutor", Agent))
                   /\ pc' = "failed"
                   /\ raised' = Exception(TimeoutError)
                   /\ UNCHANGED <<events, status>>
              ELSE IF ~r.ok
              THEN /\ events' = notify_observers(execObservers, events, graph,
                                    "ArgoExecutor", FailedData(Agent, name, r.event[1]), k)
                   /\ trace' = trace \o
                        <<PublishMark("ArgoExecutor", "ArgoExecutor",
                                      FailedData(Agent, name, r.event[1]), k),
                          Mark("raise", "ArgoExecutor", Agent)>>
                   /\ pc' = "failed"
                   /\ raised' = IF k # 0 THEN Exception(ObserverError)
                                ELSE ArgoWorkflowExceptionOf(status.d["workflow-name"],
                                                             r.event[1])
                   /\ status' = StatusOf(SetKey(status.d, "event", r.event[1]))
              ELSE /\ status' = StatusOf(SetKey(status.d, "event", r.event[1]))
                   /\ events' = notify_observers(execObservers, events, graph,
                                    "ArgoExecutor", TerminalData(Agent, name, r.event[1]), k)
                   /\ trace' = trace \o
                        <<PublishMark("ArgoExecutor", "ArgoExecutor",
                                      TerminalData(Agent, name, r.event[1]), k),
                          Mark(IF k = 0 THEN "return" ELSE "raise", "ArgoExecutor", Agent)>>
                   /\ pc' = IF k = 0 THEN "ran" ELSE "failed"
                   /\ raised' = IF k = 0 THEN NoException ELSE Exception(ObserverError)
    /\ UNCHANGED <<observers, graph, threads, ret, node, mode, state, executor, execObservers, err,
                   underlying, stream, asyncMode, gets, specKeys, localVars, procVars, order>>

\* workflow_agent.py:109-135: the synchronous wait of run() on the stream s
ArgoRunWait(s, k) ==
    /\ pc = "wait"
    /\ k \in RaisePoints(execObservers)
    /\ LET name == status.d["workflow-name"]
           r == _wait_for_crd_status(WatchStream(s, name))
       IN  /\ api' = api \o WaitCalls(name, r)
           /\ cluster' = ApplyCalls(cluster, WaitCalls(name, r))
           /\ outcome' = r
           /\ IF r.kind = "timeout"
              THEN /\ k = 0
                   /\ trace' = Append(trace, Mark("raise", "ArgoExecutor", Agent))
                   /\ pc' = "failed"
                   /\ raised' = Exception(TimeoutError)
                   /\ UNCHANGED <<events, status>>
              ELSE IF ~r.ok
              THEN /\ events' = notify_observers(execObservers, events, graph,
                                    "ArgoExecutor", FailedData(Agent, name, r.event[1]), k)
                   /\ trace' = trace \o
                        <<PublishMark("ArgoExecutor", "ArgoExecutor",
                                      FailedData(Agent, name, r.event[1]), k),
                          Mark("raise", "ArgoExecutor", Agent)>>
                   /\ pc' = "failed"
                   /\ raised' = IF k # 0 THEN Exception(ObserverError)
                                ELSE ArgoWorkflowExceptionOf(status.d["workflow-name"],
                                                             r.event[1])
                   /\ UNCHANGED status
              ELSE /\ status' = StatusOf(SetKey(status.d, "event", r.event[1]))
                   /\ events' = notify_observers(execObservers, events, graph,
                                    "ArgoExecutor", TerminalData(Agent, name, r.event[1]), k)
                   /\ trace' = trace \o
                        <<PublishMark("ArgoExecutor", "ArgoExecutor",
                                      TerminalData(Agent, name, r.event[1]), k),
                          Mark(IF k = 0 THEN "return" ELSE "raise", "ArgoExecutor", Agent)>>
                   /\ pc' = IF k = 0 THEN "ran" ELSE "failed"
                   /\ raised' = IF k = 0 THEN NoException ELSE Exception(ObserverError)
    /\ UNCHANGED <<observers, graph, threads, ret, node, mode, state, executor, execObservers, err,
                   underlying, stream, asyncMode, gets, specKeys, localVars, procVars, order>>

\* workflow_agent.py:137-160: get_results(context); s is the stream its wait
\* would read
ArgoGetResults(s, k) ==
    /\ pc \in {"new", "ran", "failed"}
    /\ gets < MaxGetResults
    /\ gets' = gets + 1
    /\ k \in RaisePoints(execObservers)
    /\ IF ~status.set
       THEN /\ s = <<>> /\ k = 0
            /\ raised' = Exception(StatusTypeError)
            /\ ret' = [Idle EXCEPT !.op = "get_results"]
            /\ trace' = Append(trace, Mark("raise", "ArgoExecutor", Agent))
            /\ UNCHANGED <<events, status, api, cluster, outcome>>
       ELSE LET name == status.d["workflow-name"]
                waited == "event" \notin DOMAIN status.d
                r == IF waited THEN _wait_for_crd_status(WatchStream(s, name))
                     ELSE [kind |-> "returned", ok |-> TRUE, event |-> <<status.d["event"]>>]
                calls == IF waited THEN WaitCalls(name, r) ELSE <<>>
            IN  /\ ~waited => s = <<>> /\ k = 0
                /\ api' = api \o calls
                /\ cluster' = ApplyCalls(cluster, calls)
                /\ outcome' = IF waited THEN r ELSE outcome
                /\ IF r.kind = "timeout"
                   THEN /\ k = 0
                        /\ raised' = Exception(TimeoutError)
                        /\ ret' = [Idle EXCEPT !.op = "get_results"]
                        /\ trace' = Append(trace, Mark("raise", "ArgoExecutor", Agent))
                        /\ UNCHANGED <<events, status>>
                   ELSE IF ~r.ok
                   THEN /\ events' = notify_observers(execObservers, events, graph,
                                         "ArgoExecutor", ResultsFailedData(Agent, r.event[1]), k)
                        /\ trace' = trace \o
                             <<PublishMark("ArgoExecutor", "ArgoExecutor",
                                           ResultsFailedData(Agent, r.event[1]), k),
                               Mark("raise", "ArgoExecutor", Agent)>>
                        /\ raised' = IF k # 0 THEN Exception(ObserverError)
                                     ELSE ArgoWorkflowExceptionOf(status.d["workflow-name"],
                                                                  r.event[1])
                        /\ ret' = [Idle EXCEPT !.op = "get_results"]
                        /\ UNCHANGED status
                   ELSE IF k # 0
                   THEN /\ events' = notify_observers(execObservers, events, graph,
                                         "ArgoExecutor", ResultsTerminalData(Agent, r.event[1]), k)
                        /\ trace' = trace \o
                             <<PublishMark("ArgoExecutor", "ArgoExecutor",
                                           ResultsTerminalData(Agent, r.event[1]), k),
                               Mark("raise", "ArgoExecutor", Agent)>>
                        /\ raised' = Exception(ObserverError)
                        /\ ret' = [Idle EXCEPT !.op = "get_results"]
                        /\ UNCHANGED status
                   ELSE LET out == _extract_output(r.event[1])
                        IN  /\ IF waited
                               THEN /\ events' = notify_observers(execObservers, events, graph,
                                                     "ArgoExecutor",
                                                     ResultsTerminalData(Agent, r.event[1]), k)
                                    /\ status' = StatusOf(SetKey(status.d, "event", r.event[1]))
                               ELSE UNCHANGED <<events, status>>
                            /\ trace' = trace
                                 \o (IF waited
                                     THEN <<PublishMark("ArgoExecutor", "ArgoExecutor",
                                                ResultsTerminalData(Agent, r.event[1]), k)>>
                                     ELSE <<>>)
                                 \o <<Mark(IF out.ok THEN "return" ELSE "raise",
                                           "ArgoExecutor", Agent)>>
                            /\ raised' = IF out.ok THEN NoException
                                         ELSE Exception(out.error)
                            /\ ret' = IF out.ok
                                      THEN [Idle EXCEPT !.op = "get_results",
                                                        !.latest = <<out.value>>]
                                      ELSE [Idle EXCEPT !.op = "get_results"]
    /\ UNCHANGED <<observers, graph, threads, pc, node, mode, state, executor, execObservers, err,
                   underlying, stream, asyncMode, specKeys, localVars, procVars, order>>

NextArgo ==
    \/ \E async_mode \in BOOLEAN : \E created \in BOOLEAN :
           \E k \in RaisePoints(execObservers) : ArgoRunCreate(async_mode, created, k)
    \/ \E s \in ArgoStreams : \E k \in RaisePoints(execObservers) : ArgoRunWait(s, k)
    \/ \E s \in ArgoStreams : \E k \in RaisePoints(execObservers) : ArgoGetResults(s, k)

SpecArgo == InitArgo /\ [][NextArgo]_vars

-----------------------------------------------------------------------------
(* SpecExtract: get_results() on a context whose synchronous run() stored  *)
(* a terminal event, over every bounded dict of execution nodes.           *)

MaxNodes == 2           \* most execution nodes in a terminal event

\* the execution nodes a terminal event may list
NodeKinds ==
    {[name |-> "n"],
     [templateName |-> "main"],
     [templateName |-> "main", outputs |-> <<"{\"x\":2}">>],
     [templateName |-> "agent-runner"],
     [templateName |-> "agent-runner", outputs |-> <<>>],
     [templateName |-> "agent-runner", outputs |-> <<"">>],
     [templateName |-> "agent-runner", outputs |-> <<"not json">>],
     [templateName |-> "agent-runner", outputs |-> <<"{\"x\":1}">>],
     [templateName |-> "agent-runner", outputs |-> <<"{\"x\":2}", "{\"x\":1}">>]}

NodeLists == UNION {[1..n -> NodeKinds] : n \in 0..MaxNodes}

\* the terminal events of a succeeded workflow, with and without "nodes"
ExtractEvents ==
    {[metadata |-> GeneratedNames[1],
      status |-> [phase |-> "Succeeded", finishedAt |-> "t", nodes |-> ns]] : ns \in NodeLists}
    \cup {[metadata |-> GeneratedNames[1], status |-> [phase |-> "Succeeded", finishedAt |-> "t"]]}

\* workflow_agent.py:48-135: the state a synchronous run() of the first agent
\* leaves when its wait returned the succeeded event ev
AfterSyncRun(ev) ==
    LET name == GeneratedNames[1]
        agent == NodeOrder[1]
        graphs == [o \in LogObservers |-> WorkflowGraph]
        created == notify_observers(<<"o1">>, [o \in LogObservers |-> <<>>], graphs,
                                    "ArgoExecutor", CreatedData(agent, name), 0)
    IN  /\ observers = <<>>
        /\ execObservers = <<"o1">>
        /\ graph = graphs
        /\ events = notify_observers(<<"o1">>, created, graphs, "ArgoExecutor",
                                     TerminalData(agent, name, ev), 0)
        /\ ret = Idle
        /\ pc = "ran"
        /\ node = 1
        /\ mode = Argo
        /\ state = <<>>
        /\ executor = "ArgoExecutor"
        /\ status = StatusOf(SetKey("workflow-name" :> name, "event", ev))
        /\ err = "none"
        /\ underlying = "none"
        /\ trace = <<Mark("call", "ArgoExecutor", agent),
                     PublishMark("ArgoExecutor", "ArgoExecutor", CreatedData(agent, name), 0),
                     PublishMark("ArgoExecutor", "ArgoExecutor",
                                 TerminalData(agent, name, ev), 0),
                     Mark("return", "ArgoExecutor", agent)>>
        /\ cluster = {name}
        /\ stream = <<>>
        /\ outcome = [kind |-> "returned", ok |-> TRUE, event |-> <<ev>>]
        /\ api = <<CreateCall(name), WatchCall(name)>>
        /\ asyncMode = FALSE
        /\ raised = NoException
        /\ gets = 0
        /\ environ = NoData
        /\ workflowName = None
        /\ order = NodeOrder
        /\ specKeys = FullSpec
        /\ threads = NoThreads
        /\ contexts = <<>>
        /\ futures = NoData
        /\ pool = <<>>
        /\ invoked = <<>>
        /\ callLog = <<>>

InitExtract == \E ev \in ExtractEvents : AfterSyncRun(ev)

NextExtract == ArgoGetResults(<<>>, 0)

SpecExtract == InitExtract /\ [][NextExtract]_vars

-----------------------------------------------------------------------------
(* SpecLocal: one LocalExecutor, its worker pool, and the contexts a       *)
(* caller hands to run() and get_results().                                *)

MaxCalls == 3           \* run() / get_results() calls per behaviour in SpecLocal
MaxWorkers == 2         \* worker threads of the ThreadPoolExecutor

\* what an invocation of a node function does: it returns a value, or raises
Returns == {"a", "b"}
Outcomes == Returns \cup {Raises}

\* runtime.py:26-38: an ExecutionContext with metadata.name, a spec that holds
\* "node_functions" or not, and status None
Context(name, has) == [name |-> name, node_functions |-> has, status |-> StatusNone]

\* the contexts of a behaviour, under distinct names
ContextLists ==
    {<<Context("n1", TRUE), Context("n2", TRUE)>>,
     <<Context("n1", TRUE), Context("n2", FALSE)>>}

\* local_executor.py:46: the future of a submitted node function of context c
Future(c) == [ctx |-> c, state |-> "pending", out |-> None]

\* a call on the executor with what it returned (<<>>: None) or raised
CallRecord(op, c, async_mode, result, error) ==
    [op |-> op, ctx |-> c, async_mode |-> async_mode, result |-> result, error |-> error]

\* local_executor.py:39 on a context whose status is None
LocalTypeError == "TypeError: 'NoneType' object is not subscriptable"

RunningFutures == {f \in 1..Len(pool) : pool[f].state = "running"}

\* a plausible slip: the status written without the value
RunStatusEmpty(out) == StatusOf([output |-> None])

\* local_executor.py:35: context.status = {"output": ret}
RunStatus(out) == StatusOf([output |-> out])

\* a plausible slip: a lenient read that yields None when nothing was stored
StatusOutputOrNone(c) ==
    IF ~contexts[c].status.set
    THEN CallRecord("get_results", c, FALSE, <<None>>, "none")
    ELSE CallRecord("get_results", c, FALSE, <<contexts[c].status.d.output>>, "none")

\* local_executor.py:39: return context.status["output"]
StatusOutput(c) ==
    IF ~contexts[c].status.set
    THEN CallRecord("get_results", c, FALSE, <<>>, LocalTypeError)
    ELSE CallRecord("get_results", c, FALSE, <<contexts[c].status.d.output>>, "none")

\* a plausible slip: the exception of the node function is swallowed
FutureResultSwallow(c, f) ==
    IF pool[f].out = Raises
    THEN CallRecord("get_results", c, FALSE, <<None>>, "none")
    ELSE CallRecord("get_results", c, FALSE, <<pool[f].out>>, "none")

\* local_executor.py:41-42: future.result() of a future that is done
FutureResult(c, f) ==
    IF pool[f].out = Raises
    THEN CallRecord("get_results", c, FALSE, <<>>, CallableError)
    ELSE CallRecord("get_results", c, FALSE, <<pool[f].out>>, "none")

\* local_executor.py:11-13
InitLocal ==
    /\ observers = <<>>
    /\ events = [o \in LogObservers |-> <<>>]
    /\ graph = [o \in LogObservers |-> NoGraph]
    /\ ret = Idle
    /\ pc = "idle"
    /\ node = 1
    /\ mode = Local
    /\ state = <<>>
    /\ executor = "LocalExecutor"
    /\ execObservers = <<>>
    /\ status = StatusNone
    /\ err = "none"
    /\ underlying = "none"
    /\ trace = <<>>
    /\ cluster = {}
    /\ WaitInit
    /\ api = <<>>
    /\ asyncMode = FALSE
    /\ raised = NoException
    /\ gets = 0
    /\ environ = NoData
    /\ workflowName = None
    /\ order = NodeOrder
    /\ specKeys = FullSpec
    /\ threads = NoThreads
    /\ contexts \in ContextLists
    /\ futures = NoData
    /\ pool = <<>>
    /\ invoked = <<>>
    /\ callLog = <<>>

\* a plausible slip: the asynchronous path also runs the function in place
LocalRunInline(c, async_mode, out) ==
    /\ Len(callLog) < MaxCalls
    /\ IF ~contexts[c].node_functions
       THEN /\ callLog' = Append(callLog,
                              CallRecord("run", c, async_mode, <<>>, MissingNodeFunctions))
            /\ UNCHANGED <<contexts, futures, pool, invoked>>
       ELSE /\ invoked' = Append(invoked, Invocation(c, "caller", out))
            /\ IF async_mode
               THEN /\ pool' = Append(pool, [Future(c) EXCEPT !.state = "finished", !.out = out])
                    /\ futures' = SetKey(futures, contexts[c].name, Len(pool) + 1)
                    /\ callLog' = Append(callLog, CallRecord("run", c, TRUE, <<>>, "none"))
                    /\ UNCHANGED contexts
               ELSE /\ IF out = Raises
                       THEN /\ callLog' = Append(callLog,
                                              CallRecord("run", c, FALSE, <<>>, CallableError))
                            /\ UNCHANGED contexts
                       ELSE /\ contexts' = [contexts EXCEPT ![c].status = RunStatus(out)]
                            /\ callLog' = Append(callLog,
                                              CallRecord("run", c, FALSE, <<>>, "none"))
                    /\ UNCHANGED <<futures, pool>>
    /\ UNCHANGED <<obsVars, threads, runVars, waitVars, execVars, procVars, order>>

\* local_executor.py:15-35: run(context, async_mode); out is what the node
\* function does when run() invokes it itself
LocalExecutorRun(c, async_mode, out) ==
    /\ IF ~contexts[c].node_functions
       THEN /\ callLog' = Append(callLog,
                              CallRecord("run", c, async_mode, <<>>, MissingNodeFunctions))
            /\ UNCHANGED <<contexts, futures, pool, invoked>>
       ELSE IF async_mode
       THEN /\ pool' = Append(pool, Future(c))
            /\ futures' = SetKey(futures, contexts[c].name, Len(pool) + 1)
            /\ callLog' = Append(callLog, CallRecord("run", c, TRUE, <<>>, "none"))
            /\ UNCHANGED <<contexts, invoked>>
       ELSE /\ invoked' = Append(invoked, Invocation(c, "caller", out))
            /\ IF out = Raises
               THEN /\ callLog' = Append(callLog,
                                      CallRecord("run", c, FALSE, <<>>, CallableError))
                    /\ UNCHANGED contexts
               ELSE /\ contexts' = [contexts EXCEPT ![c].status = RunStatus(out)]
                    /\ callLog' = Append(callLog, CallRecord("run", c, FALSE, <<>>, "none"))
            /\ UNCHANGED <<futures, pool>>
    /\ UNCHANGED <<obsVars, threads, runVars, waitVars, execVars, procVars, order>>

\* a call of run() by the caller of SpecLocal
LocalRun(c, async_mode, out) ==
    /\ Len(callLog) < MaxCalls
    /\ LocalExecutorRun(c, async_mode, out)

\* a plausible slip: a queued future starts whether or not a worker is free
WorkerStartUnbounded(f, out) ==
    /\ pool[f].state = "pending"
    /\ \A g \in 1..(f - 1) : pool[g].state # "pending"
    /\ pool' = [pool EXCEPT ![f].state = "running", ![f].out = out]
    /\ invoked' = Append(invoked, Invocation(pool[f].ctx, "worker", out))
    /\ UNCHANGED <<obsVars, threads, runVars, waitVars, execVars, contexts, futures, callLog, procVars, order>>

\* the ThreadPoolExecutor of local_executor.py:13,46: a free worker thread
\* takes the oldest queued future and invokes its node function
WorkerStart(f, out) ==
    /\ pool[f].state = "pending"
    /\ \A g \in 1..(f - 1) : pool[g].state # "pending"
    /\ Cardinality(RunningFutures) < MaxWorkers
    /\ pool' = [pool EXCEPT ![f].state = "running", ![f].out = out]
    /\ invoked' = Append(invoked, Invocation(pool[f].ctx, "worker", out))
    /\ UNCHANGED <<obsVars, threads, runVars, waitVars, execVars, contexts, futures, callLog, procVars, order>>

\* the node function returns or raises on its worker thread: the future is done
WorkerFinish(f) ==
    /\ pool[f].state = "running"
    /\ pool' = [pool EXCEPT ![f].state = "finished"]
    /\ UNCHANGED <<obsVars, threads, runVars, waitVars, execVars, contexts, futures, invoked, callLog, procVars, order>>

\* a plausible slip: get_results on a registered handle runs the function again
LocalGetResultsReinvoke(c) ==
    /\ Len(callLog) < MaxCalls
    /\ LET name == contexts[c].name
       IN  IF name \notin DOMAIN futures
           THEN /\ callLog' = Append(callLog, StatusOutput(c))
                /\ UNCHANGED invoked
           ELSE /\ pool[futures[name]].state = "finished"
                /\ \E out \in Outcomes :
                      /\ invoked' = Append(invoked, Invocation(c, "caller", out))
                      /\ callLog' = Append(callLog,
                            IF out = Raises
                            THEN CallRecord("get_results", c, FALSE, <<>>, CallableError)
                            ELSE CallRecord("get_results", c, FALSE, <<out>>, "none"))
    /\ UNCHANGED <<obsVars, threads, runVars, waitVars, execVars, contexts, futures, pool, procVars, order>>

\* local_executor.py:37-42: get_results(context); future.result() returns once
\* the future is done, with its value or its exception
LocalExecutorGetResults(c) ==
    /\ LET name == contexts[c].name
       IN  IF name \notin DOMAIN futures
           THEN callLog' = Append(callLog, StatusOutput(c))
           ELSE /\ pool[futures[name]].state = "finished"
                /\ callLog' = Append(callLog, FutureResult(c, futures[name]))
    /\ UNCHANGED <<obsVars, threads, runVars, waitVars, execVars, contexts, futures, pool, invoked, procVars, order>>

\* a call of get_results() by the caller of SpecLocal
LocalGetResults(c) ==
    /\ Len(callLog) < MaxCalls
    /\ LocalExecutorGetResults(c)

NextLocal ==
    \/ \E c \in 1..Len(contexts) : \E async_mode \in BOOLEAN : \E out \in Outcomes :
           LocalRun(c, async_mode, out)
    \/ \E f \in 1..Len(pool) : \E out \in Outcomes : WorkerStart(f, out)
    \/ \E f \in 1..Len(pool) : WorkerFinish(f)
    \/ \E c \in 1..Len(contexts) : LocalGetResults(c)

SpecLocal == InitLocal /\ [][NextLocal]_vars

-----------------------------------------------------------------------------
(* Properties of the Observable / Observer pair, checked under SpecObs.    *)

Max(S) == CHOOSE m \in S : \A n \in S : n <= m

\* number of subscriptions of o
Subscriptions(o) == Cardinality({i \in 1..Len(observers) : observers[i] = o})

\* positions before i in log whose agent is the source of an edge of g into agent_name
Qualifying(log, g, i, agent_name) ==
    {j \in 1..(i - 1) : <<log[j].details.agentName, agent_name>> \in g.edges}

\* C1: in every log, under every graph, each event's agentPredecessor is the agent
\* name of the most recent earlier event whose agent is the source of a graph
\* edge into the event's agent, and "__start__" when no earlier event
\* qualifies; with several parents fired it is the most recently fired one.
C1_PredecessorIsMostRecentParent ==
    \A o \in LogObservers : \A i \in 1..Len(events[o]) :
        LET log == events[o]
            q == Qualifying(log, graph[o], i, log[i].details.agentName)
        IN  log[i].details.agentPredecessor =
                IF q = {} THEN START ELSE log[Max(q)].details.agentName

\* C1 witness: C has the parents A and B, both fired, A before B: C reports B
C1_Witness ==
    /\ graph["o1"] = JoinGraph
    /\ Len(events["o1"]) = 3
    /\ events["o1"][1].details.agentName = "A"
    /\ events["o1"][2].details.agentName = "B"
    /\ events["o1"][3].details.agentName = "C"
    /\ events["o1"][3].details.agentPredecessor = "B"

\* C3: an observer with no graph configured records agentPredecessor "__start__"
\* in every event, whatever the event's agent name (an absent one included) and
\* whatever the log already holds.
C3_NoGraphAlwaysStart ==
    \A o \in LogObservers : ~graph[o].configured =>
        \A i \in 1..Len(events[o]) : events[o][i].details.agentPredecessor = START

\* C3 witness: no graph, an event of B recorded after an event of A, then an
\* event without agent name
C3_Witness ==
    /\ ~graph["o1"].configured
    /\ Len(events["o1"]) = 3
    /\ events["o1"][1].details.agentName = "A"
    /\ events["o1"][2].details.agentName = "B"
    /\ events["o1"][3].details.agentName = None
    /\ events["o1"][3].details.agentPredecessor = START

\* the log of o holds the publishes of the history one for one, in call order
LogIsCallOrder(o) ==
    /\ Len(events[o]) = Len(trace)
    /\ \A i \in 1..Len(trace) :
          /\ events[o][i].source = trace[i].source
          /\ events[o][i].details.agentName = Get(trace[i].data, "agentName")
          /\ events[o][i].details.agentPhase = Get(trace[i].data, "agentPhase")

\* every log keeps the entries it had, unchanged and in place
LogsOnlyGrow ==
    \A o \in LogObservers :
        /\ Len(events'[o]) >= Len(events[o])
        /\ SubSeq(events'[o], 1, Len(events[o])) = events[o]

\* C4: the log is append-only and in publication order: after N publishes the
\* log of an observer that received each of them has exactly N entries in call
\* order, get_latest_event returns the Nth (none on an empty log), and no
\* publish changes or removes an entry already in the log.
C4_AppendOnlyInCallOrder ==
    /\ [](/\ (observers[1] \in LogObservers /\ Subscriptions(observers[1]) = 1)
                => LogIsCallOrder(observers[1])
          /\ ret.op = "get_latest_event" =>
                /\ events[ret.of] = <<>> => ret.latest = <<>>
                /\ events[ret.of] # <<>> => ret.latest = <<events[ret.of][Len(events[ret.of])]>>)
    /\ [][LogsOnlyGrow]_vars

\* C4 witness: two or more publishes of different events, then get_latest_event
C4_Witness ==
    /\ observers = <<"o1">>
    /\ Len(trace) >= 2
    /\ events["o1"][1] # events["o1"][2]
    /\ ret.op = "get_latest_event"
    /\ ret.of = "o1"
    /\ ret.latest = <<events["o1"][Len(trace)]>>

\* C5: an observer subscribed after one that raises still receives the event:
\* every Observer subscribed behind an observer that may raise has received
\* every publish, once per subscription.
C5_ObserverIsolation ==
    \A j \in 1..Len(observers) :
        (/\ observers[j] \in LogObservers
         /\ \E i \in 1..(j - 1) : observers[i] \in ForeignObservers)
        => Len(events[observers[j]]) = Subscriptions(observers[j]) * Len(trace)

-----------------------------------------------------------------------------
(* Properties of the workflow run, checked under Spec.                     *)

PredecessorOf(agent) ==
    IF agent = lead_market_analyst THEN START
    ELSE IF agent = chief_marketing_strategist THEN lead_market_analyst
    ELSE chief_marketing_strategist

\* C2: with the edges A->B and B->C and the nodes run in the order A, B, C,
\* every event of A has predecessor "__start__", every event of B has
\* predecessor A and every event of C has predecessor B, in every log.
C2_ChainPredecessors ==
    \A o \in LogObservers : \A i \in 1..Len(events[o]) :
        events[o][i].details.agentPredecessor = PredecessorOf(events[o][i].details.agentName)

\* C2 witness: the three nodes ran, each with several events, the last one
\* through the remote backend
C2_Witness ==
    /\ pc = "done"
    /\ Len(events["o1"]) = 12
    /\ events["o1"][1].details.agentName = lead_market_analyst
    /\ events["o1"][5].details.agentName = chief_marketing_strategist
    /\ events["o1"][5].details.agentPredecessor = lead_market_analyst
    /\ events["o1"][12].details.agentName = creative_content_creator
    /\ events["o1"][12].details.agentPredecessor = chief_marketing_strategist

\* C6: an observer raising while an error-path event is published does not mask
\* the error: when workflow creation failed, or the workflow ended Failed or
\* Error, the caller of run receives that error.
C6_ErrorNotMasked ==
    (pc = "failed" /\ underlying \in {CreateError, ArgoWorkflowException})
        => err = underlying

\* C7: when a node execution fails and the error reaches the caller of
\* _run_node, the last event of the log has agentPhase "Errored" and carries
\* the error message, whatever the backend and the kind of failure.
C7_LastEventErrored ==
    (pc = "failed" /\ underlying # ObserverError)
        => \A i \in 1..Len(observers) : observers[i] \in LogObservers =>
              /\ events[observers[i]] # <<>>
              /\ Last(events[observers[i]]).details.agentPhase = "Errored"
              /\ Last(events[observers[i]]).details.error # None

IsNodesPublish(m, phase, agent) ==
    /\ m.kind = "publish"
    /\ m.by = "Nodes"
    /\ m.data = [agentName |-> agent, agentPhase |-> phase]

IsExecutorPublish(m, agent) ==
    /\ m.kind = "publish"
    /\ m.by # "Nodes"
    /\ m.data.agentName = agent

C9_BackendsPublishTransitions ==
    \A i \in 1..Len(trace) :
        (\/ trace[i].kind = "return"
         \/ (trace[i].kind = "raise" /\ i = Len(trace)
                /\ underlying \in {CallableError, ArgoWorkflowException}))
        => \E c \in 1..(i - 1) :
              /\ trace[c].kind = "call"
              /\ trace[c].data.agentName = trace[i].data.agentName
              /\ \E j \in (c + 1)..(i - 1) :
                    /\ trace[j].kind = "publish"
                    /\ trace[j].source = trace[i].by

-----------------------------------------------------------------------------
(* Properties of the wait, checked under SpecWait.                         *)

Min(S) == CHOOSE m \in S : \A n \in S : m <= n

\* C10: the wait classifies in three ways: the update with finishedAt set and
\* phase Succeeded gives success with that event; with phase Failed or Error,
\* failure with that event, raised as the workflow-failure exception; a stream
\* that ends with no update having finishedAt set gives the timeout error,
\* which is not the workflow-failure exception.
C10_WaitClassification ==
    outcome.kind # "none" =>
        LET set == {i \in 1..Len(stream) : FinishedAtSet(stream[i])}
        IN  /\ set = {} =>
                  /\ outcome.kind = "timeout"
                  /\ WaitError(outcome) = TimeoutError
                  /\ WaitError(outcome) # ArgoWorkflowException
            /\ set # {} =>
                  LET u == stream[Min(set)]
                      phase == Get(u.status, "phase")
                  IN  /\ phase = "Succeeded" =>
                            /\ outcome = [kind |-> "returned", ok |-> TRUE, event |-> <<u>>]
                            /\ WaitError(outcome) = "none"
                      /\ phase \in {"Failed", "Error"} =>
                            /\ outcome = [kind |-> "returned", ok |-> FALSE, event |-> <<u>>]
                            /\ WaitError(outcome) = ArgoWorkflowException

\* C10 witness: an update with phase Failed that is not finished, then a finished
\* one with phase Error: the wait returns failure with the second
C10_Witness ==
    /\ Len(stream) = 2
    /\ ~FinishedAtSet(stream[1])
    /\ "status" \in DOMAIN stream[1]
    /\ Get(stream[1].status, "phase") = "Failed"
    /\ FinishedAtSet(stream[2])
    /\ Get(stream[2].status, "phase") = "Error"
    /\ outcome = [kind |-> "returned", ok |-> FALSE, event |-> <<stream[2]>>]

-----------------------------------------------------------------------------
(* Properties of ArgoExecutor, checked under SpecArgo.                     *)

\* the calls made on the cluster by the step
NewCalls == SubSeq(api', Len(api) + 1, Len(api'))

\* the step is a wait, in run() or in get_results(), that timed out
TimedOutStep == raised'.type = TimeoutError /\ api' # api

\* C11: a wait that times out only stops waiting: the calls it made on the
\* cluster are watches, none modifies a resource, the set of resources is the
\* same after the step as before it, and the resource named in context.status
\* exists whenever the last call ended in the timeout error.
C11_TimeoutLeavesResource ==
    /\ [](raised.type = TimeoutError =>
            status.set /\ status.d["workflow-name"] \in cluster)
    /\ [][TimedOutStep =>
            /\ cluster' = cluster
            /\ \A i \in 1..Len(NewCalls) : NewCalls[i].verb = "watch"]_vars

C11_Witness ==
    /\ raised.type = TimeoutError
    /\ status.set
    /\ status.d["workflow-name"] \in cluster
    /\ api[Len(api)] = WatchCall(status.d["workflow-name"])

\* the publish calls and call marks added to the history by the step
NewMarks == SubSeq(trace', Len(trace) + 1, Len(trace'))

\* the step is a run() whose creation call failed
CreateFailedStep == pc = "new" /\ api' = Append(api, CreateCall(None))

\* C12: when the creation of the workflow resource fails, run() publishes an
\* event with agentPhase "Errored" for the context's agent, then the creation
\* failure reaches the caller; context.status is not written and no watch is
\* opened.
C12_CreateFailurePublishesErrored ==
    [][CreateFailedStep =>
          /\ \E i \in 1..Len(NewMarks) :
                /\ NewMarks[i].kind = "publish"
                /\ Get(NewMarks[i].data, "agentName") = Agent
                /\ Get(NewMarks[i].data, "agentPhase") = "Errored"
          /\ raised'.type = CreateError
          /\ status' = StatusNone
          /\ \A i \in 1..Len(api') : api'[i].verb # "watch"]_vars

\* the name of the resource created by the step
CreatedName == api'[Len(api')].name

\* the step is a run() whose creation call succeeded
CreateOkStep ==
    /\ pc = "new"
    /\ Len(api') = Len(api) + 1
    /\ api'[Len(api')].verb = "create"
    /\ CreatedName # None

\* C13: when the creation succeeds, run() publishes an event with agentPhase
\* "Running" and executionPhase "Created" whose executionID is the generated
\* name, and context.status["workflow-name"] holds that name; with async_mode
\* it then returns with no watch opened and no "event" key in the status.
C13_CreatedNameRecorded ==
    [][CreateOkStep =>
          /\ \E i \in 1..Len(NewMarks) :
                /\ NewMarks[i].kind = "publish"
                /\ NewMarks[i].data = CreatedData(Agent, CreatedName)
          /\ status'.set
          /\ status'.d["workflow-name"] = CreatedName
          /\ asyncMode' =>
                /\ pc' = "ran"
                /\ raised' = NoException
                /\ DOMAIN status'.d = {"workflow-name"}
                /\ \A i \in 1..Len(api') : api'[i].verb # "watch"]_vars

\* the step is a get_results() on a context that run() has written
GetResultsStep == gets' = gets + 1 /\ status.set

\* the step opened a watch and the wait returned with this verdict
WaitReturned(ok) ==
    /\ api' # api
    /\ outcome'.kind = "returned"
    /\ outcome'.ok = ok

\* C14: get_results() waits only when needed. With status["event"] present it
\* opens no watch and its result is the extraction from the stored event; with
\* no "event" it opens one watch, and when that wait ends in success the
\* terminal event is stored in status["event"], so that once get_results() has
\* returned an output every further call opens no watch and returns the same.
C14_WaitsOnlyWhenNeeded ==
    [][GetResultsStep =>
          /\ "event" \in DOMAIN status.d =>
                /\ api' = api
                /\ status' = status
                /\ LET out == _extract_output(status.d["event"])
                   IN  IF out.ok THEN ret'.latest = <<out.value>> /\ raised' = NoException
                       ELSE ret'.latest = <<>> /\ raised' = Exception(out.error)
          /\ "event" \notin DOMAIN status.d =>
                /\ api' = Append(api, WatchCall(status.d["workflow-name"]))
                /\ WaitReturned(TRUE) =>
                      /\ "event" \in DOMAIN status'.d
                      /\ status'.d["event"] = outcome'.event[1]
          /\ (ret.op = "get_results" /\ ret.latest # <<>>) => (ret' = ret /\ api' = api)]_vars

\* position in the marks of the step of an Errored event for the failed wait
ErroredPublished(i) ==
    /\ NewMarks[i].kind = "publish"
    /\ Get(NewMarks[i].data, "agentName") = Agent
    /\ Get(NewMarks[i].data, "agentPhase") = "Errored"
    /\ Get(NewMarks[i].data, "executionPhase") = outcome'.event[1].status.phase
    /\ Get(NewMarks[i].data, "error") \notin {None, ""}

\* C15: when the wait of run() or of get_results() returns a terminal event of
\* phase Failed or Error, an event with agentPhase "Errored", that phase as
\* executionPhase and a non-empty error is published before the call raises,
\* and the exception raised is the ArgoWorkflowException carrying the workflow
\* name of context.status and the terminal event.
C15_ErroredBeforeRaise ==
    [][WaitReturned(FALSE) =>
          /\ outcome'.event[1].status.phase \in {"Failed", "Error"}
          /\ \E i \in 1..Len(NewMarks) :
                /\ ErroredPublished(i)
                /\ \E j \in (i + 1)..Len(NewMarks) : NewMarks[j].kind = "raise"
          /\ raised'.type = ArgoWorkflowException
          /\ raised'.workflow_name = status.d["workflow-name"]
          /\ raised'.event = outcome'.event]_vars

-----------------------------------------------------------------------------
(* Properties of the output extraction, checked under SpecExtract.         *)

\* the execution nodes of the stored terminal event
StoredNodes ==
    IF "nodes" \in DOMAIN status.d["event"].status
    THEN status.d["event"].status.nodes ELSE <<>>

\* the agent-runner nodes that carry outputs
Runners == {i \in 1..Len(StoredNodes) :
               /\ Get(StoredNodes[i], "templateName") = "agent-runner"
               /\ "outputs" \in DOMAIN StoredNodes[i]}

\* the node has a first output parameter with a value
HasOutput(n) == n.outputs # <<>> /\ n.outputs[1] # ""

\* C16: the extraction returns the parsed value of the first output parameter
\* of the first agent-runner node carrying outputs, and nothing else: when no
\* agent-runner node has an output it raises and returns no value, when that
\* node's first output is a JSON document it returns the document's value; one
\* get_results() extracts once, opening no watch and changing no status.
C16_ExtractsAgentRunnerOutput ==
    /\ [](gets > 0 =>
            /\ ret.latest # <<>> =>
                  /\ Runners # {}
                  /\ HasOutput(StoredNodes[Min(Runners)])
                  /\ StoredNodes[Min(Runners)].outputs[1] \in DOMAIN JsonValues
                  /\ ret.latest = <<JsonValues[StoredNodes[Min(Runners)].outputs[1]]>>
                  /\ raised = NoException
            /\ (\A i \in Runners : ~HasOutput(StoredNodes[i])) =>
                  /\ ret.latest = <<>>
                  /\ raised.type # "none"
            /\ (/\ Runners # {}
                /\ HasOutput(StoredNodes[Min(Runners)])
                /\ StoredNodes[Min(Runners)].outputs[1] \in DOMAIN JsonValues) =>
                  ret.latest # <<>>)
    /\ [][gets' = gets + 1 =>
            /\ api' = api
            /\ status' = status
            /\ Len(NewMarks) = 1
            /\ NewMarks[1].kind = (IF ret'.latest # <<>> THEN "return" ELSE "raise")]_vars

C16_Witness ==
    /\ gets > 0
    /\ ret.latest = <<[x |-> 1]>>
    /\ Len(StoredNodes) = 2
    /\ StoredNodes[1] = [templateName |-> "main", outputs |-> <<"{\"x\":2}">>]

-----------------------------------------------------------------------------
(* Properties of LocalExecutor, checked under SpecLocal.                   *)

\* positions up to j of the run() calls on context c
RunsOf(c, j) == {m \in 1..j : callLog[m].op = "run" /\ callLog[m].ctx = c}

\* the invocations of the node function of context c, in order
InvocationsOf(c) == SelectSeq(invoked, LAMBDA r : r.ctx = c)

\* a handle is registered under the name of context c
Registered(c) == contexts[c].name \in DOMAIN futures

\* C17: local round trip. On a context with no handle registered under its
\* name, every run() that reaches the node function invokes it exactly once
\* and get_results() invokes nothing; a get_results() whose latest run() on
\* that context returned gives back exactly the value the node function
\* returned in that run.
C17_LocalRoundTrip ==
    \A c \in 1..Len(contexts) : ~Registered(c) =>
        /\ Len(InvocationsOf(c)) =
              (IF contexts[c].node_functions
               THEN Cardinality(RunsOf(c, Len(callLog))) ELSE 0)
        /\ \A j \in 1..Len(callLog) :
              (/\ callLog[j].op = "get_results"
               /\ callLog[j].ctx = c
               /\ RunsOf(c, j) # {}
               /\ callLog[Max(RunsOf(c, j))].error = "none") =>
                  /\ callLog[j].error = "none"
                  /\ callLog[j].result = <<InvocationsOf(c)[Cardinality(RunsOf(c, j))].out>>

C17_Witness ==
    /\ Len(callLog) = 3
    /\ callLog[1].op = "run" /\ callLog[1].ctx = 1 /\ ~callLog[1].async_mode
    /\ callLog[2].op = "get_results" /\ callLog[2].ctx = 1 /\ callLog[2].result = <<"b">>
    /\ callLog[3] = callLog[2]
    /\ Len(invoked) = 1

\* the step is a get_results() on context c
GetResultsOn(c) ==
    /\ Len(callLog') = Len(callLog) + 1
    /\ callLog'[Len(callLog')].op = "get_results"
    /\ callLog'[Len(callLog')].ctx = c

RunsInMode(c, j, async_mode) ==
    {m \in RunsOf(c, j) : callLog[m].async_mode = async_mode /\ contexts[c].node_functions}

\* the futures of context c that a worker has taken
TakenFutures(c) == {f \in 1..Len(pool) : pool[f].ctx = c /\ pool[f].state # "pending"}

\* the future submitted by the asynchronous run() at position m of the calls:
\* futures enter the pool in the order of the submitting calls
FutureOfRun(m) ==
    Cardinality({n \in 1..m : /\ callLog[n].op = "run"
                              /\ callLog[n].async_mode
                              /\ contexts[callLog[n].ctx].node_functions})

\* C19: local asynchronous idempotence. All get_results() calls that follow
\* one asynchronous run() of a context, two or more, return the same value (or
\* raise the same error), and the node function is invoked once for that
\* run(): by the worker that took its future, never by get_results().
C19_AsyncIdempotent ==
    \A c \in 1..Len(contexts) :
        /\ Len(InvocationsOf(c)) =
              Cardinality(RunsInMode(c, Len(callLog), FALSE)) + Cardinality(TakenFutures(c))
        /\ Cardinality(TakenFutures(c)) <= Cardinality(RunsInMode(c, Len(callLog), TRUE))
        /\ \A i, j \in 1..Len(callLog) :
              (/\ i < j
               /\ callLog[i].op = "get_results" /\ callLog[i].ctx = c
               /\ callLog[j].op = "get_results" /\ callLog[j].ctx = c
               /\ RunsOf(c, i) = RunsOf(c, j)
               /\ RunsOf(c, i) # {}
               /\ callLog[Max(RunsOf(c, i))].async_mode
               /\ callLog[Max(RunsOf(c, i))].error = "none") =>
                  /\ callLog[i] = callLog[j]
                  /\ callLog[i].error = "none" =>
                        callLog[i].result = <<pool[FutureOfRun(Max(RunsOf(c, i)))].out>>

C19_Witness ==
    /\ Len(callLog) = 3
    /\ callLog[1].op = "run" /\ callLog[1].ctx = 1 /\ callLog[1].async_mode
    /\ callLog[2].op = "get_results" /\ callLog[2].ctx = 1 /\ callLog[2].result = <<"a">>
    /\ callLog[3] = callLog[2]
    /\ invoked = <<Invocation(1, "worker", "a")>>

\* the step is a run() on context c with async_mode true that found the
\* node functions in the spec
AsyncRunOn(c) ==
    /\ Len(callLog') = Len(callLog) + 1
    /\ callLog'[Len(callLog')] = CallRecord("run", c, TRUE, <<>>, "none")

\* the invocations made on the calling thread
CallerInvocations(c) == SelectSeq(invoked, LAMBDA r : r.ctx = c /\ r.thread = "caller")

\* C20: run() with async_mode true submits the node function to the pool as
\* one new future, not yet started when run() returns, registers that future
\* and no other under context.metadata.name, writes no context status and
\* invokes nothing itself; the calling thread invokes a node function in
\* synchronous runs only.
C20_AsyncRunSubmits ==
    /\ [](\A c \in 1..Len(contexts) :
             Len(CallerInvocations(c)) = Cardinality(RunsInMode(c, Len(callLog), FALSE)))
    /\ [][\A c \in 1..Len(contexts) : AsyncRunOn(c) =>
             /\ pool' = Append(pool, [ctx |-> c, state |-> "pending", out |-> None])
             /\ DOMAIN futures' = DOMAIN futures \cup {contexts[c].name}
             /\ futures'[contexts[c].name] = Len(pool')
             /\ \A n \in DOMAIN futures \ {contexts[c].name} : futures'[n] = futures[n]
             /\ contexts' = contexts
             /\ invoked' = invoked]_vars

C20_Witness ==
    /\ Len(callLog) = 2
    /\ callLog[1] = CallRecord("run", 1, TRUE, <<>>, "none")
    /\ callLog[2] = CallRecord("run", 1, TRUE, <<>>, "none")
    /\ futures = ("n1" :> 2)
    /\ pool[1].state = "running"
    /\ pool[2].state = "pending"
    /\ ~contexts[1].status.set

\* the step is a synchronous run() on context c whose node function raises
SyncRunRaisesOn(c) ==
    /\ Len(invoked') = Len(invoked) + 1
    /\ invoked'[Len(invoked')] = Invocation(c, "caller", Raises)

\* C21: the exception of the node function reaches the caller in both modes.
\* A synchronous run() raises it and writes no status: a context that had no
\* output has none afterwards. An asynchronous run() returns normally, and
\* every get_results() that follows it on that context raises the exception
\* of the invocation made for its future.
C21_CallableFailureReachesCaller ==
    /\ [](\A j \in 1..Len(callLog) :
             LET c == callLog[j].ctx
             IN  (/\ callLog[j].op = "get_results"
                  /\ RunsOf(c, j) # {}
                  /\ callLog[Max(RunsOf(c, j))].async_mode
                  /\ callLog[Max(RunsOf(c, j))].error = "none"
                  /\ pool[FutureOfRun(Max(RunsOf(c, j)))].out = Raises) =>
                     /\ callLog[j].error = CallableError
                     /\ callLog[j].result = <<>>)
    /\ [][\A c \in 1..Len(contexts) :
             /\ SyncRunRaisesOn(c) =>
                   /\ callLog' = Append(callLog, CallRecord("run", c, FALSE, <<>>, CallableError))
                   /\ contexts' = contexts
                   /\ futures' = futures
             /\ (/\ Len(callLog') = Len(callLog) + 1
                 /\ callLog'[Len(callLog')].op = "run"
                 /\ callLog'[Len(callLog')].ctx = c
                 /\ callLog'[Len(callLog')].async_mode
                 /\ contexts[c].node_functions) =>
                   callLog'[Len(callLog')].error = "none"]_vars

C21_Witness ==
    /\ Len(callLog) = 3
    /\ callLog[1] = CallRecord("run", 1, TRUE, <<>>, "none")
    /\ callLog[2] = CallRecord("get_results", 1, FALSE, <<>>, CallableError)
    /\ callLog[3] = CallRecord("run", 2, FALSE, <<>>, CallableError)
    /\ ~contexts[2].status.set

-----------------------------------------------------------------------------
(* SpecConfig: a LocalExecutor and an ArgoExecutor whose callers hand them  *)
(* contexts whose spec may lack a key the backend reads.                   *)

\* the specs a caller may hand to ArgoExecutor.run: the complete one, one
\* lacking a single required key, and the spec _run_node_local builds
\* (nodes.py:103-108)
SpecKeySets ==
    {FullSpec} \cup {FullSpec \ {key} : key \in RequiredKeys} \cup {{"node_functions"}}

InitConfig ==
    /\ observers = <<>>
    /\ events = [o \in LogObservers |-> <<>>]
    /\ graph = [o \in LogObservers |-> WorkflowGraph]
    /\ ret = Idle
    /\ pc = "new"
    /\ node = 1
    /\ mode = None
    /\ state = <<>>
    /\ executor = "unset"
    /\ execObservers = <<"o1">>
    /\ status = StatusNone
    /\ err = "none"
    /\ underlying = "none"
    /\ trace = <<>>
    /\ cluster = {}
    /\ WaitInit
    /\ api = <<>>
    /\ asyncMode = FALSE
    /\ raised = NoException
    /\ gets = 0
    /\ environ = NoData
    /\ workflowName = None
    /\ order = NodeOrder
    /\ specKeys \in SpecKeySets
    /\ threads = NoThreads
    /\ contexts \in ContextLists
    /\ futures = NoData
    /\ pool = <<>>
    /\ invoked = <<>>
    /\ callLog = <<>>

NextConfig ==
    \/ \E c \in 1..Len(contexts) : \E async_mode \in BOOLEAN : \E out \in Outcomes :
           LocalRun(c, async_mode, out)
    \/ \E async_mode \in BOOLEAN : \E created \in BOOLEAN :
           \E k \in RaisePoints(execObservers) : ArgoRunCreate(async_mode, created, k)
    \/ \E s \in ArgoStreams : \E k \in RaisePoints(execObservers) : ArgoRunWait(s, k)

SpecConfig == InitConfig /\ [][NextConfig]_vars

\* the step is a call of ArgoExecutor.run
ArgoRunStep == pc = "new" /\ pc' # "new"

\* the step is a call of LocalExecutor.run on context c
LocalRunStep(c) ==
    /\ Len(callLog') = Len(callLog) + 1
    /\ callLog'[Len(callLog')].op = "run"
    /\ callLog'[Len(callLog')].ctx = c

\* C22: a run() on a context whose spec lacks a key its backend requires raises
\* before any dispatch: the remote run makes no call on the cluster, creates no
\* resource, publishes no event and leaves context.status alone; the local run
\* invokes and submits nothing and leaves context.status and the handle
\* registry alone
C22_MissingKeyFailsBeforeDispatch ==
    [][/\ (ArgoRunStep /\ ~(RequiredKeys \subseteq specKeys)) =>
             /\ raised'.type \in {MissingProgram, MissingInputMessage,
                                  MissingAgentRunnerImage}
             /\ pc' = "failed"
             /\ api' = api
             /\ cluster' = cluster
             /\ events' = events
             /\ \A i \in 1..Len(NewMarks) : NewMarks[i].kind # "publish"
             /\ status' = status
             /\ UNCHANGED <<invoked, pool, futures>>
       /\ \A c \in 1..Len(contexts) :
             (LocalRunStep(c) /\ ~contexts[c].node_functions) =>
                /\ callLog'[Len(callLog')].error = MissingNodeFunctions
                /\ UNCHANGED <<invoked, pool, futures, contexts>>
                /\ UNCHANGED <<api, cluster, events, trace>>]_vars

\* both backends refused a context: the remote one lacking input_message, the
\* local one lacking node_functions while a handle was registered
C22_Witness ==
    /\ raised.type = MissingInputMessage
    /\ pc = "failed"
    /\ api = <<>>
    /\ futures # NoData
    /\ Len(callLog) = 2
    /\ callLog[2] = CallRecord("run", 2, TRUE, <<>>, MissingNodeFunctions)

-----------------------------------------------------------------------------
(* Properties of Nodes._run_node, checked under Spec.                      *)

\* the step starts an invocation whose mode is neither Local nor Remote
UnsupportedModeStep == pc = "idle" /\ pc' # "idle" /\ mode' \notin {Local, Argo}

\* C23: an invocation whose execution mode is neither Local nor Remote fails
\* with an error at once: no executor is created, none is called, nothing is
\* created in the cluster, and the shared workflow state is unchanged; the
\* failed invocation takes no further step
C23_UnsupportedModeFails ==
    /\ [](~(pc = "failed" /\ mode \notin {Local, Argo} /\ ENABLED Next))
    /\ [][UnsupportedModeStep =>
             /\ pc' = "failed"
             /\ err' \in {Unsupported, ObserverError}
             /\ executor' = executor
             /\ execObservers' = execObservers
             /\ \A i \in 1..Len(NewMarks) : NewMarks[i].kind = "publish"
             /\ cluster' = cluster
             /\ api' = api
             /\ state' = state]_vars

\* the second node is invoked under an unsupported mode after the first one ran
\* locally: the invocation failed, the executor and the state are those left
\* by the first node
C23_Witness ==
    /\ pc = "failed"
    /\ err = Unsupported
    /\ mode = None
    /\ node = 2
    /\ executor = "LocalExecutor"
    /\ state = <<NodeOrder[1]>>
    /\ trace[Len(trace)].kind = "publish"

\* the calls with the given verb in a sequence of cluster calls
CallsOf(verb, a) == SelectSeq(a, LAMBDA call : call.verb = verb)

\* the cluster calls and the invocations of the node function made by the step
StepCalls == SubSeq(api', Len(api) + 1, Len(api'))
StepInvocations == SubSeq(invoked', Len(invoked) + 1, Len(invoked'))

\* C24: no retries. The positions of one invocation are passed in one
\* direction (idle, then local or remote, wait, results, finish) and "failed"
\* is final; the creation is attempted only by the step leaving "remote" and
\* once, the watch only by the step leaving "wait" and once, the node function
\* is invoked only by the step leaving "local" and once; so one invocation
\* creates, watches and invokes at most once, and after a creation failure, a
\* failed task, a timeout or an extraction error nothing more is done
C24_NoRetries ==
    /\ [](pc = "failed" => ~ENABLED Next)
    /\ [][/\ Len(CallsOf("create", StepCalls)) <= 1
          /\ Len(CallsOf("watch", StepCalls)) <= 1
          /\ Len(StepInvocations) <= 1
          /\ CallsOf("create", StepCalls) # <<>> => pc = "remote" /\ pc' \in {"wait", "failed"}
          /\ CallsOf("watch", StepCalls) # <<>> => pc = "wait" /\ pc' \in {"results", "failed"}
          /\ StepInvocations # <<>> => pc = "local" /\ pc' \in {"finish", "failed"}
          /\ (pc' \in {"local", "remote"} /\ pc' # pc) => pc = "idle"
          /\ (pc' = "wait" /\ pc' # pc) => pc = "remote"
          /\ (pc' = "results" /\ pc' # pc) => pc = "wait"
          /\ (pc' = "finish" /\ pc' # pc) => pc \in {"local", "results"}
          /\ (pc' \in {"idle", "done"} /\ pc' # pc) => pc = "finish" /\ node' = node + 1
          /\ node' # node => pc = "finish"]_vars

\* two remote invocations, the wait of the second timed out: one creation and
\* one watch each, then nothing
C24_Witness ==
    /\ pc = "failed"
    /\ err = TimeoutError
    /\ node = 2
    /\ invoked = <<>>
    /\ Len(CallsOf("create", api)) = 2
    /\ Len(CallsOf("watch", api)) = 2

-----------------------------------------------------------------------------
(* SpecSub: an Observable from its construction on: observers subscribe,   *)
(* unsubscribe, and events are published to whoever is subscribed.         *)

MaxSubscribed == 2      \* longest list of subscriptions in SpecSub
MaxNotify == 2          \* publishes per behaviour in SpecSub

\* the observers that subscribe in SpecSub
Subscribers == LogObservers \cup ForeignObservers

\* the event_data published in SpecSub: each publish is about another agent
SubEventData(n) == [agentName |-> NodeOrder[((n - 1) % Len(NodeOrder)) + 1],
                    agentPhase |-> "Started"]

\* the positions of o in a list
PositionsOf(list, o) == {i \in 1..Len(list) : list[i] = o}

\* a list without its element at position i
WithoutAt(list, i) == SubSeq(list, 1, i - 1) \o SubSeq(list, i + 1, Len(list))

\* list.remove(o) of observer.py:66: the first occurrence is removed
Remove(list, o) == WithoutAt(list, Min(PositionsOf(list, o)))

\* observer.py:59-60: a new Observable has no observer; the logs are empty
InitSub ==
    /\ observers = <<>>
    /\ events = [o \in LogObservers |-> <<>>]
    /\ graph = [o \in LogObservers |-> ChainGraph]
    /\ ret = Idle
    /\ RunInit
    /\ WaitInit
    /\ ExecInit
    /\ order = NodeOrder

\* observer.py:62-63: add_observer appends, whether or not o is subscribed
AddObserver(o) ==
    /\ Len(observers) < MaxSubscribed
    /\ observers' = Append(observers, o)
    /\ ret' = [Idle EXCEPT !.op = "add_observer"]
    /\ UNCHANGED <<events, graph, threads, runVars, waitVars, execVars, localVars, procVars, order>>

\* observer.py:65-66: remove_observer; list.remove raises ValueError when o is
\* not in the list
RemoveObserver(o) ==
    /\ IF PositionsOf(observers, o) # {}
       THEN /\ observers' = Remove(observers, o)
            /\ ret' = [Idle EXCEPT !.op = "remove_observer"]
       ELSE /\ ret' = [Idle EXCEPT !.op = "ValueError"]
            /\ UNCHANGED observers
    /\ UNCHANGED <<events, graph, threads, runVars, waitVars, execVars, localVars, procVars, order>>

\* observer.py:68-70: notify_observers on the current list
Notify(k) ==
    /\ Len(trace) < MaxNotify
    /\ Publish("test", SubEventData(Len(trace) + 1), k)

NextSub ==
    \/ \E o \in Subscribers : AddObserver(o)
    \/ \E o \in Subscribers : RemoveObserver(o)
    \/ \E k \in RaisePoints(observers) : Notify(k)

SpecSub == InitSub /\ [][NextSub]_vars

\* C25: subscriptions are not unique and are notified in subscription order.
\* add_observer always adds one subscription; every publish adds to the log of
\* an observer one entry of the event per subscription it holds, whatever is
\* subscribed in front of it; remove_observer removes one subscription and
\* keeps the others in place
C25_SubscriptionsAreAList ==
    [][/\ (ret'.op = "add_observer") =>
             /\ \E o \in Subscribers : observers' = Append(observers, o)
             /\ events' = events
       /\ (ret'.op = "remove_observer") =>
             /\ \E i \in 1..Len(observers) : observers' = WithoutAt(observers, i)
             /\ events' = events
       /\ (ret'.op = "ValueError") =>
             /\ observers' = observers
             /\ events' = events
       /\ (ret'.op = "notify_observers") =>
             /\ observers' = observers
             /\ \A o \in LogObservers :
                   LET added == SubSeq(events'[o], Len(events[o]) + 1, Len(events'[o]))
                   IN  /\ Len(added) = Cardinality(PositionsOf(observers, o))
                       /\ SubSeq(events'[o], 1, Len(events[o])) = events[o]
                       /\ \A i \in 1..Len(added) :
                             /\ added[i].source = trace'[Len(trace')].source
                             /\ added[i].details.agentName
                                   = trace'[Len(trace')].data.agentName]_vars

-----------------------------------------------------------------------------
(* SpecPool: one caller submits one more node function than the pool has   *)
(* workers, each under its own name, and asks for each result once.        *)

\* the metadata.name of the submitted contexts
PoolNames == <<"n1", "n2", "n3", "n4", "n5">>

\* one context more than there are worker threads
PoolContexts == [i \in 1..(MaxWorkers + 1) |-> Context(PoolNames[i], TRUE)]

\* what a node function of SpecPool does
PoolOutcomes == {"a", Raises}

InitPool ==
    /\ observers = <<>>
    /\ events = [o \in LogObservers |-> <<>>]
    /\ graph = [o \in LogObservers |-> NoGraph]
    /\ ret = Idle
    /\ pc = "idle"
    /\ node = 1
    /\ mode = Local
    /\ state = <<>>
    /\ executor = "LocalExecutor"
    /\ execObservers = <<>>
    /\ status = StatusNone
    /\ err = "none"
    /\ underlying = "none"
    /\ trace = <<>>
    /\ cluster = {}
    /\ WaitInit
    /\ api = <<>>
    /\ asyncMode = FALSE
    /\ raised = NoException
    /\ gets = 0
    /\ environ = NoData
    /\ workflowName = None
    /\ order = NodeOrder
    /\ specKeys = FullSpec
    /\ threads = NoThreads
    /\ contexts = PoolContexts
    /\ futures = NoData
    /\ pool = <<>>
    /\ invoked = <<>>
    /\ callLog = <<>>

\* the caller submits the contexts one after the other: run(context, async_mode=True)
PoolSubmit(c) ==
    /\ c = Len(pool) + 1
    /\ LocalExecutorRun(c, TRUE, Raises)

\* the caller asks once for the result of a submitted context
PoolGetResults(c) ==
    /\ contexts[c].name \in DOMAIN futures
    /\ \A j \in 1..Len(callLog) : ~(callLog[j].op = "get_results" /\ callLog[j].ctx = c)
    /\ LocalExecutorGetResults(c)

PoolWorkerStart == \E f \in 1..Len(pool) : \E out \in PoolOutcomes : WorkerStart(f, out)

NextPool ==
    \/ \E c \in 1..Len(contexts) : PoolSubmit(c)
    \/ PoolWorkerStart
    \/ \E f \in 1..Len(pool) : WorkerFinish(f)
    \/ \E c \in 1..Len(contexts) : PoolGetResults(c)

SpecPool == InitPool /\ [][NextPool]_vars

\* the caller goes on, a free worker takes queued work, and every node
\* function that was started returns or raises
SpecPoolFair ==
    /\ SpecPool
    /\ \A c \in 1..(MaxWorkers + 1) : WF_vars(PoolSubmit(c))
    /\ \A c \in 1..(MaxWorkers + 1) : WF_vars(PoolGetResults(c))
    /\ WF_vars(PoolWorkerStart)
    /\ \A f \in 1..(MaxWorkers + 1) : WF_vars(f <= Len(pool) /\ WorkerFinish(f))

\* every context was submitted, its node function ran to its end on a worker,
\* and its get_results returned what the function returned or raised what it raised
PoolDone ==
    /\ Len(pool) = MaxWorkers + 1
    /\ \A f \in 1..Len(pool) :
          /\ pool[f].state = "finished"
          /\ Len(SelectSeq(invoked, LAMBDA r : r.ctx = pool[f].ctx)) = 1
          /\ \E j \in 1..Len(callLog) :
                /\ callLog[j].op = "get_results"
                /\ callLog[j].ctx = pool[f].ctx
                /\ callLog[j] = FutureResult(pool[f].ctx, f)

\* C26: with N workers and N + 1 asynchronous submissions under distinct names
\* no submission fails, never more than N node functions run at a time, and in
\* the end every submitted function has run and every get_results has returned
C26_PoolQueuesAndCompletes ==
    /\ [](/\ Cardinality(RunningFutures) <= MaxWorkers
          /\ \A j \in 1..Len(callLog) : callLog[j].op = "run" => callLog[j].error = "none")
    /\ <>PoolDone

\* all workers are busy and the last submission waits in the queue
C26_Witness ==
    /\ Len(pool) = MaxWorkers + 1
    /\ Cardinality(RunningFutures) = MaxWorkers
    /\ pool[Len(pool)].state = "pending"
    /\ \A j \in 1..Len(callLog) : callLog[j].error = "none"

-----------------------------------------------------------------------------
(* SpecThreads: two threads publish to one Observable with one Observer;   *)
(* no lock is taken by notify_observers or update, so the steps of two     *)
(* update() calls interleave.                                              *)

MaxThreadPublish == 3   \* publishes per behaviour in SpecThreads, all threads together

PublisherThreads == {"t1", "t2"}

\* a thread outside update()
ThreadIdle == [at |-> "idle", data |-> NoData, predecessor |-> START]

\* publishes begun so far
Begun == Len(trace)

InitThreads ==
    /\ observers = <<"o1">>
    /\ events = [o \in LogObservers |-> <<>>]
    /\ \E g \in {ChainGraph, JoinGraph} : graph = [o \in LogObservers |-> g]
    /\ ret = Idle
    /\ threads = [t \in PublisherThreads |-> ThreadIdle]
    /\ RunInit
    /\ WaitInit
    /\ api = <<>>
    /\ asyncMode = FALSE
    /\ raised = NoException
    /\ gets = 0
    /\ environ = NoData
    /\ workflowName = None
    /\ order = NodeOrder
    /\ specKeys = FullSpec
    /\ contexts = <<>>
    /\ futures = NoData
    /\ pool = <<>>
    /\ invoked = <<>>
    /\ callLog = <<>>

\* observer.py:68-70 and 17-31: thread t enters notify_observers, which calls
\* update() of the one observer; update() reads the graph and scans the log as
\* it is now (reversed() fixes the range it reads when it is called)
ThreadScan(t, event_data) ==
    /\ threads[t].at = "idle"
    /\ Begun < MaxThreadPublish
    /\ threads' = [threads EXCEPT ![t] =
           [at |-> "scanned", data |-> event_data,
            predecessor |-> Predecessor(events[observers[1]], graph[observers[1]],
                                        Get(event_data, "agentName"))]]
    /\ trace' = Append(trace, PublishMark(t, "test", event_data, 0))
    /\ UNCHANGED <<observers, events, graph, ret, pc, node, mode, state, executor,
                   execObservers, status, err, underlying, cluster, waitVars, execVars,
                   localVars, procVars, order>>

\* observer.py:33-48: the event is built with the predecessor found by the scan
\* and appended to the log as it is by now
ThreadAppend(t) ==
    /\ threads[t].at = "scanned"
    /\ events' = [events EXCEPT ![observers[1]] =
           Append(@, [MakeEvent(<<>>, graph[observers[1]], "test", threads[t].data)
                        EXCEPT !.details.agentPredecessor = threads[t].predecessor])]
    /\ threads' = [threads EXCEPT ![t] = ThreadIdle]
    /\ UNCHANGED <<observers, graph, ret, runVars, waitVars, execVars, localVars, procVars, order>>

NextThreads ==
    \/ \E t \in PublisherThreads : \E a \in Agents :
           ThreadScan(t, [agentName |-> a, agentPhase |-> "Started"])
    \/ \E t \in PublisherThreads : ThreadAppend(t)

SpecThreads == InitThreads /\ [][NextThreads]_vars

\* C27: publishes from different threads are serialized: the log holds the
\* event of every finished publish, and the agentPredecessor of each event is
\* what the inference gives on exactly the events in front of it in the log
C27_ConcurrentPublishesSerialized ==
    LET log == events[observers[1]]
    IN  /\ Len(log) = Begun - Cardinality({t \in PublisherThreads : threads[t].at = "scanned"})
        /\ \A i \in 1..Len(log) :
              log[i].details.agentPredecessor
                 = Predecessor(SubSeq(log, 1, i - 1), graph[observers[1]],
                               log[i].details.agentName)

-----------------------------------------------------------------------------
(* SpecEnv: the ExecutionContext Nodes._run_node_remote builds for each    *)
(* node from the environment of the process.                               *)

\* a plausible slip: the prefix tested without its underscore
startswithLoose(name, prefix) ==
    /\ Len(name) >= Len(prefix) - 1
    /\ SubSeq(name, 1, Len(prefix) - 1) = SubSeq(prefix, 1, Len(prefix) - 1)

\* str.startswith
startswith(name, prefix) ==
    /\ Len(name) >= Len(prefix)
    /\ SubSeq(name, 1, Len(prefix)) = prefix

\* utils.py:4-15
common_envs ==
    {"HTTP_PROXY", "HTTPS_PROXY", "NO_PROXY", "http_proxy", "https_proxy", "no_proxy",
     "OPENAI_HOST", "OPENAI_MODEL", "WORKFLOW_NAME", "TELEMETRY_ENDPOINT"}

\* the variables the process may have: allow-listed ones, ones with the
\* prefix, and names that come close to either
EnvNames ==
    {"HTTP_PROXY", "no_proxy", "WORKFLOW_NAME", "OVAL_X", "OVAL_", "OVAL", "oval_x",
     "XOVAL_Y", "PATH"}

\* the environments of the process: any of the variables set; a WORKFLOW_NAME
\* of the process is not the identifier of this instance
Environments ==
    {[n \in S |-> IF n = "WORKFLOW_NAME" THEN "stale" ELSE "v"] : S \in SUBSET EnvNames}

\* nodes.py:23: str(uuid.uuid4())
WorkflowNames == {"uuid-1", "uuid-2"}

\* nodes.py:76-80: the dict comprehension over env.items()
Overlay(env) ==
    [n \in {v \in DOMAIN env : startswith(v, "OVAL_") \/ v \in common_envs} |-> env[n]]

InitEnv ==
    /\ observers = <<>>
    /\ events = [o \in LogObservers |-> <<>>]
    /\ graph = [o \in LogObservers |-> WorkflowGraph]
    /\ ret = Idle
    /\ threads = NoThreads
    /\ RunInit
    /\ WaitInit
    /\ api = <<>>
    /\ asyncMode = FALSE
    /\ raised = NoException
    /\ gets = 0
    /\ specKeys = FullSpec
    /\ contexts = <<>>
    /\ futures = NoData
    /\ pool = <<>>
    /\ invoked = <<>>
    /\ callLog = <<>>
    /\ environ \in Environments
    /\ workflowName \in WorkflowNames
    /\ order = NodeOrder

\* nodes.py:61-85: the context of the remote execution of the next node
BuildContext ==
    /\ node <= Len(order)
    /\ LET env == SetKey(environ, "WORKFLOW_NAME", workflowName)
       IN  contexts' = Append(contexts,
               [agent_name |-> Agent,
                name |-> "marketing-strategy-multi-v2",
                additional_env_vars |-> Overlay(env)])
    /\ node' = node + 1
    /\ UNCHANGED <<obsVars, threads, pc, mode, state, executor, execObservers, status, err,
                   underlying, trace, cluster, waitVars, execVars, futures, pool, invoked,
                   callLog, procVars, order>>

NextEnv == BuildContext

SpecEnv == InitEnv /\ [][NextEnv]_vars

\* the variables of EnvNames that begin with "OVAL_"
PrefixedNames == {"OVAL_X", "OVAL_"}

\* C28: in every context built for a remote execution the overlay holds exactly
\* the process variables whose name is in the allow-list or begins with
\* "OVAL_", with their values, and WORKFLOW_NAME, always, with the workflow
\* identifier of the Nodes instance, the same in the context of every node
C28_OverlayIsAllowListPlusPrefix ==
    \A c \in 1..Len(contexts) :
        LET overlay == contexts[c].additional_env_vars
        IN  /\ DOMAIN overlay
                 = ((DOMAIN environ) \cap (common_envs \cup PrefixedNames))
                      \cup {"WORKFLOW_NAME"}
            /\ overlay["WORKFLOW_NAME"] = workflowName
            /\ \A n \in DOMAIN overlay \ {"WORKFLOW_NAME"} : overlay[n] = environ[n]
            /\ \A b \in 1..Len(contexts) :
                  contexts[b].additional_env_vars["WORKFLOW_NAME"] = overlay["WORKFLOW_NAME"]

\* every node of the workflow got its context from a process that has all the
\* variables: the near-misses are left out, the stale WORKFLOW_NAME is replaced
C28_Witness ==
    /\ Len(contexts) = Len(NodeOrder)
    /\ DOMAIN environ = EnvNames
    /\ DOMAIN contexts[1].additional_env_vars
          = {"HTTP_PROXY", "no_proxy", "WORKFLOW_NAME", "OVAL_X", "OVAL_"}
    /\ contexts[Len(contexts)].additional_env_vars["WORKFLOW_NAME"] = "uuid-2"
    /\ contexts[1].agent_name # contexts[2].agent_name

-----------------------------------------------------------------------------
(* Further properties of Observer.update, checked under SpecObs.           *)

\* C29: the inference only looks backward: the agentPredecessor of every event
\* of every log is "__start__" or the agent name of an event at an earlier
\* position of the log that is the source of an edge into the event's agent;
\* so it is never an agent with no earlier event, nor taken from the event itself
C29_PredecessorLooksBackward ==
    \A o \in LogObservers : \A i \in 1..Len(events[o]) :
        LET e == events[o][i].details
        IN  \/ e.agentPredecessor = START
            \/ \E j \in 1..(i - 1) :
                  /\ events[o][j].details.agentName = e.agentPredecessor
                  /\ <<e.agentPredecessor, e.agentName>> \in graph[o].edges

\* B is published before its parent A and gets "__start__", not A; published
\* again behind A it gets A
C29_Witness ==
    /\ graph["o1"] = ChainGraph
    /\ Len(events["o1"]) = 3
    /\ events["o1"][1].details.agentName = "B"
    /\ events["o1"][1].details.agentPredecessor = START
    /\ events["o1"][2].details.agentName = "A"
    /\ events["o1"][3].details.agentName = "B"
    /\ events["o1"][3].details.agentPredecessor = "A"

-----------------------------------------------------------------------------
(* Further properties of _wait_for_crd_status, checked under SpecWaitFair. *)

\* the updates of the stream whose status has a finishedAt that is not None
FinishedAtPositions == {i \in 1..Len(stream) : FinishedAtSet(stream[i])}

\* the cluster sets finishedAt together with a phase
PhaseWithFinishedAt ==
    \A i \in FinishedAtPositions : "phase" \in DOMAIN stream[i].status

-----------------------------------------------------------------------------
(* SpecTraversal: Nodes._run_node invoked node after node along a walk of a *)
(* graph that has cycles but no edge from a node to itself.                 *)

\* lead_market_analyst and chief_marketing_strategist hand over to each other
LoopGraph ==
    [configured |-> TRUE,
     edges |-> {<<START, lead_market_analyst>>,
                <<lead_market_analyst, chief_marketing_strategist>>,
                <<chief_marketing_strategist, lead_market_analyst>>,
                <<chief_marketing_strategist, creative_content_creator>>}]

\* creative_content_creator has two parents and hands back to one of them
JoinLoopGraph ==
    [configured |-> TRUE,
     edges |-> {<<START, lead_market_analyst>>,
                <<lead_market_analyst, creative_content_creator>>,
                <<chief_marketing_strategist, creative_content_creator>>,
                <<creative_content_creator, chief_marketing_strategist>>}]

\* a graph and the nodes one traversal of it invokes, in order
Traversals ==
    {[graph |-> WorkflowGraph, order |-> NodeOrder],
     [graph |-> LoopGraph,
      order |-> <<lead_market_analyst, chief_marketing_strategist,
                  lead_market_analyst, chief_marketing_strategist>>],
     [graph |-> JoinLoopGraph,
      order |-> <<lead_market_analyst, creative_content_creator,
                  chief_marketing_strategist, creative_content_creator>>]}

InitTraversal ==
    /\ observers \in RunObserverLists
    /\ events = [o \in LogObservers |-> <<>>]
    /\ \E t \in Traversals :
          /\ graph = [o \in LogObservers |-> t.graph]
          /\ order = t.order
    /\ ret = Idle
    /\ RunInit
    /\ WaitInit
    /\ ExecInit

SpecTraversal == InitTraversal /\ [][Next]_vars

\* the invocation the i-th event of a log belongs to: the number of Started
\* events up to it
InvocationOfEvent(log, i) ==
    Cardinality({m \in 1..i : log[m].details.agentPhase = "Started"})

\* the parent of the j-th invoked node that was invoked most recently before
\* it, __start__ when none was
FiredParent(g, j) ==
    LET fired == {m \in 1..(j - 1) : <<order[m], order[j]>> \in g.edges}
    IN  IF fired = {} THEN START ELSE order[Max(fired)]

\* C31: with the nodes invoked one after the other on a graph without
\* self-loop edges, every event a log holds of one invocation (Started, the
\* executor's events, Finished) names the invoked node and carries the same
\* agentPredecessor, the parent invoked most recently before that invocation,
\* also when the node had been invoked before.
C31_OnePredecessorPerInvocation ==
    \A o \in LogObservers : \A i \in 1..Len(events[o]) :
        LET log == events[o]
            j == InvocationOfEvent(log, i)
        IN  /\ j \in 1..Len(order)
            /\ log[i].details.agentName = order[j]
            /\ log[i].details.agentPredecessor = FiredParent(graph[o], j)
            /\ i > 1 /\ log[i].details.agentPhase # "Started"
                  => log[i].details.agentPredecessor = log[i - 1].details.agentPredecessor

\* a node invoked for the second time ran remotely to its end: its four
\* events are in the log, and its predecessor is not the one of its first run
C31_Witness ==
    \E o \in LogObservers : \E i \in 4..Len(events[o]) :
        LET log == events[o]
            j == InvocationOfEvent(log, i)
        IN  /\ log[i].details.agentPhase = "Finished"
            /\ InvocationOfEvent(log, i - 3) = j
            /\ \E m \in 1..(j - 1) :
                  /\ order[m] = order[j]
                  /\ FiredParent(graph[o], m) # FiredParent(graph[o], j)

-----------------------------------------------------------------------------
\* the executor class that serves a mode (nodes.py:57,97)
BackendOf(m) == IF m = Local THEN "LocalExecutor" ELSE "ArgoExecutor"

\* C32: in every node invocation the executor whose run() is called is the
\* one of the mode read from the state at that invocation: a LocalExecutor in
\* Local mode, an ArgoExecutor in Remote mode, whatever the modes of the
\* invocations before it on the same Nodes instance.
C32_BackendMatchesMode ==
    [][\A i \in 1..Len(NewMarks) :
          NewMarks[i].kind = "call" => NewMarks[i].by = BackendOf(mode)]_vars

-----------------------------------------------------------------------------
\* C33: on one LocalExecutor, a get_results(context) whose latest run() on
\* that context was synchronous and returned gives back the value the node
\* function returned in that run, whatever calls were made on the executor
\* before, an earlier asynchronous run under the same metadata.name included.
C33_ResultsOfLatestSyncRun ==
    \A c \in 1..Len(contexts) : \A j \in 1..Len(callLog) :
        (/\ callLog[j].op = "get_results"
         /\ callLog[j].ctx = c
         /\ RunsOf(c, j) # {}
         /\ ~callLog[Max(RunsOf(c, j))].async_mode
         /\ callLog[Max(RunsOf(c, j))].error = "none") =>
            /\ callLog[j].error = "none"
            /\ callLog[j].result =
                  <<CallerInvocations(c)[Cardinality(RunsInMode(c, j, FALSE))].out>>

-----------------------------------------------------------------------------
\* no invocation of _run_node is in progress
NoInvocationRunning == pc \in {"idle", "failed", "done"}

\* positions of the events of an agent in a log
EventsOfAgent(log, agent) == {i \in 1..Len(log) : log[i].details.agentName = agent}

\* C34: once a node invocation has ended, normally or with any error
\* (unsupported mode, failure of the local callable, wait timeout, ...), every
\* Started event of a log is followed by an event of the same agent with
\* agentPhase "Finished" or "Errored", and the last event of that agent is
\* not left at "Started" or "Running".
C34_StartedIsClosed ==
    NoInvocationRunning =>
        \A o \in LogObservers : \A i \in 1..Len(events[o]) :
            events[o][i].details.agentPhase = "Started" =>
                LET log == events[o]
                    agent == log[i].details.agentName
                IN  /\ \E m \in (i + 1)..Len(log) :
                          /\ log[m].details.agentName = agent
                          /\ log[m].details.agentPhase \in {"Finished", "Errored"}
                    /\ log[Max(EventsOfAgent(log, agent))].details.agentPhase
                          \notin {"Started", "Running"}

-----------------------------------------------------------------------------
\* the step ends a node invocation in Remote mode normally
RemoteInvocationSucceeds == pc = "finish" /\ mode = Argo /\ pc' \in {"idle", "done"}

\* the step is the get_results call _run_node_remote makes after run()
RemoteResultsStep == pc = "results"

\* the event a log holds of a publish
LoggedEvent(source, agent, phase, id, execution_phase) ==
    [source |-> source,
     details |-> [agentName |-> agent, agentPredecessor |-> PredecessorOf(agent),
                  agentPhase |-> phase, executionID |-> id,
                  executionPhase |-> execution_phase, error |-> None]]

\* C35: a Remote node invocation that succeeds leaves exactly four events of
\* its agent in the log of a subscribed observer, the last four of the log:
\* Started from Nodes, Running with executionPhase "Created", Running with
\* the terminal phase of the workflow as executionPhase, Finished from Nodes;
\* the get_results call made after the synchronous run publishes nothing.
C35_FourEventsPerRemoteInvocation ==
    [][/\ RemoteInvocationSucceeds =>
            \A n \in 1..Len(observers) : observers[n] \in LogObservers =>
                LET log == events'[observers[n]]
                    name == status.d["workflow-name"]
                    phase == status.d.event.status.phase
                IN  /\ Cardinality(EventsOfAgent(log, Agent)) = 4
                    /\ SubSeq(log, Len(log) - 3, Len(log)) =
                          <<LoggedEvent("Nodes", Agent, "Started", None, None),
                            LoggedEvent("ArgoExecutor", Agent, "Running", name, "Created"),
                            LoggedEvent("ArgoExecutor", Agent, "Running", name, phase),
                            LoggedEvent("Nodes", Agent, "Finished", None, None)>>
       /\ RemoteResultsStep =>
            /\ events' = events
            /\ \A i \in 1..Len(NewMarks) : NewMarks[i].kind # "publish"]_vars

\* the second node ran remotely to its end after the first one had
C35_Witness ==
    /\ pc = "idle"
    /\ node = 3
    /\ mode = Argo
    /\ Len(events["o1"]) = 8
    /\ ret.op = "get_results"

-----------------------------------------------------------------------------
\* the step made a wait, in run() or in get_results(), that ended in a
\* terminal failure of the workflow or in the timeout
WaitEndedBadly ==
    /\ Len(NewCalls) = 1
    /\ NewCalls[1].verb = "watch"
    /\ outcome'.kind = "timeout" \/ (outcome'.kind = "returned" /\ ~outcome'.ok)

\* the last wait made on the context ended in failure or in the timeout
LastWaitEndedBadly ==
    /\ CallsOf("watch", api) # <<>>
    /\ outcome.kind = "timeout" \/ (outcome.kind = "returned" /\ ~outcome.ok)

\* C36: a wait that ends in a terminal failure or in the timeout, in the
\* synchronous run() or in get_results(), returns no output and leaves
\* context.status with "workflow-name", the resource it waited on, and without
\* "event"; a get_results() that follows such a wait waits afresh on that same
\* resource, and whenever get_results() returns an output the stored event is
\* the successful one that output was extracted from.
C36_FailedWaitLeavesNoEvent ==
    [][/\ WaitEndedBadly =>
            /\ status'.set
            /\ "workflow-name" \in DOMAIN status'.d
            /\ status'.d["workflow-name"] = NewCalls[1].name
            /\ "event" \notin DOMAIN status'.d
            /\ raised' # NoException
            /\ ret'.latest = <<>>
       /\ (GetResultsStep /\ LastWaitEndedBadly) =>
            /\ NewCalls = <<WatchCall(status.d["workflow-name"])>>
            /\ Last(api) = WatchCall(status.d["workflow-name"])
            /\ ret'.latest # <<>> =>
                  /\ outcome'.kind = "returned" /\ outcome'.ok
                  /\ ret'.latest = <<_extract_output(outcome'.event[1]).value>>
       /\ (GetResultsStep /\ ret'.latest # <<>>) =>
            /\ "event" \in DOMAIN status'.d
            /\ status'.d["event"].status.phase \notin {"Failed", "Error"}
            /\ ret'.latest = <<_extract_output(status'.d["event"]).value>>]_vars

\* the synchronous run failed in its wait, and a get_results() made after it
\* waited again on the same resource and failed as well
C36_Witness ==
    /\ pc = "failed"
    /\ status.set
    /\ gets >= 1
    /\ outcome.kind = "returned" /\ ~outcome.ok
    /\ Len(CallsOf("watch", api)) >= 2
    /\ "event" \notin DOMAIN status.d

-----------------------------------------------------------------------------
(* SpecPhases: run() and get_results() of an ArgoExecutor on workflows that *)
(* finish in any phase.                                                     *)

\* the phases of an Argo workflow, and one the code does not know
Phases == {"Succeeded", "Failed", "Error", "Pending", "Running", "Skipped"}

\* the finished updates, one of each phase
PhaseUpdates ==
    {[metadata |-> "wf",
      status |-> [phase |-> ph, finishedAt |-> "t", nodes |-> NodesWithOutput]] : ph \in Phases}

\* the streams a watch of SpecPhases reads: no update (the timeout), or one
\* finished update
PhaseStreams == {<<>>} \cup {<<u>> : u \in PhaseUpdates}

NextPhases ==
    \/ \E async_mode \in BOOLEAN : \E created \in BOOLEAN : \E k \in AnyRaisePoint :
           ArgoRunCreate(async_mode, created, k)
    \/ \E s \in PhaseStreams : \E k \in AnyRaisePoint : ArgoRunWait(s, k)
    \/ \E s \in PhaseStreams : \E k \in AnyRaisePoint : ArgoGetResults(s, k)

SpecPhases == InitArgo /\ [][NextPhases]_vars

\* the step made a wait, in run() or in get_results(), that a finished update ended
WaitReturnedStep ==
    /\ Len(NewCalls) = 1
    /\ NewCalls[1].verb = "watch"
    /\ outcome'.kind = "returned"

\* the publish calls made by the step
NewPublishes == SelectSeq(NewMarks, LAMBDA m : m.kind = "publish")

-----------------------------------------------------------------------------
(* SpecResubscribe: the workflow run of Spec, with observers subscribing to *)
(* and unsubscribing from the Nodes instance between node invocations.      *)

\* observer.py:62-63 on the Nodes instance, between two invocations
NodesAddObserver(o) == pc = "idle" /\ AddObserver(o)

\* observer.py:65-66 on the Nodes instance, between two invocations
NodesRemoveObserver(o) == pc = "idle" /\ RemoveObserver(o)

NextResubscribe ==
    \/ Next
    \/ \E o \in LogObservers : NodesAddObserver(o)
    \/ \E o \in LogObservers : NodesRemoveObserver(o)

SpecResubscribe == Init /\ [][NextResubscribe]_vars

\* the publish calls the executor made in the step
ExecutorPublishes == SelectSeq(NewMarks, LAMBDA m : m.kind = "publish" /\ m.by # "Nodes")

\* C38: every event the executor publishes reaches every observer subscribed
\* to the Nodes instance, once per subscription it holds there at that time,
\* whether it subscribed before the first node ran or between two node
\* invocations, and reaches no observer that has unsubscribed.
C38_ExecutorEventsReachSubscribers ==
    [][\A o \in LogObservers :
          Len(events'[o]) - Len(events[o]) =
              Len(ExecutorPublishes) * Cardinality(PositionsOf(observers, o))
          \/ ExecutorPublishes = <<>>]_vars

=============================================================================
